---- MODULE Spec2Model ----
(***************************************************************************)
(* Tax computation engine of btc: the entity classifier                    *)
(* (src/src/lib/tax/entity-classification.ts) and the VAT engine           *)
(* (src/unnamed/part_004, the repository's lib/tax/vat-computation.ts).    *)
(*                                                                         *)
(* Both libraries are sets of functions without state of their own.  The   *)
(* state of the model is the environment a call reads (the wall clock and  *)
(* the time zone of the process), the call that is pending and what the    *)
(* call produced.  Init draws the environment and the call with its        *)
(* arguments; one action per exported function applies it.  The route      *)
(* handlers are taken from one await to the next, with the tables they     *)
(* read and write.                                                         *)
(*                                                                         *)
(* Numbers.  Tax rates are kept as integers in units of 1/RateScale        *)
(* (0.275 is 55, 0.1 is 20).  Turnover, fixed assets, quantities and the   *)
(* amounts before VAT (unitPrice, lineTotal, subtotal, grossAmount) are    *)
(* whole numbers of naira, on which the code's arithmetic is exact.  The   *)
(* amounts that hold a product with a rate or a sum of such products (vat  *)
(* and total of a line, vatAmount and totalAmount of an invoice, the       *)
(* amounts an invoice is stored with, the totals, the payable and the      *)
(* credit of a VAT position, the credit carried forward) are binary64      *)
(* numbers: sign, 53-bit significand and exponent, multiplied, added and   *)
(* subtracted as IEEE 754 defines it, so that 3 * 0.1 is                   *)
(* 0.30000000000000004 and 34289.28 + 21548.51 is not 55837.79.            *)
(* Strings that the code folds or searches are sequences of code points,   *)
(* folded by the case mappings of Unicode 17.                              *)
(* A Date is the instant it holds, in hours since 1970-01-01T00:00Z, or    *)
(* the invalid date; an ISO date string is its year, month and day.        *)
(***************************************************************************)
EXTENDS Integers, Sequences, FiniteSets

VARIABLES now, tz, req, ret

vars == <<now, tz, req, ret>>

\* ---------------------------------------------------------------- bounds

\* amounts are drawn up to this far on either side of a threshold and of 0
MaxDelta == 1

\* last calendar year the clock and the dates are drawn from
LastYear == 2031

Years == 2023..LastYear

\* offsets of local time from UTC, in hours: New York, UTC, Lagos
TZOffsets == {-5, 0, 1}

\* ------------------------------------------------------------- constants

RateScale == 200

TURNOVER_THRESHOLD == 50000000

ASSETS_THRESHOLD == 250000000

CIT_2025 == 55

CIT_2026_ONWARDS == 50

DEV_LEVY_2025_2026 == 8

DEV_LEVY_2027_2029 == 6

DEV_LEVY_2030_ONWARDS == 4

\* ------------------------------------------------------------------ time

IsLeap(y) == (y % 4 = 0 /\ y % 100 # 0) \/ y % 400 = 0

LeapsBefore(y) == ((y - 1) \div 4) - ((y - 1) \div 100) + ((y - 1) \div 400)

DaysBeforeYear(y) == 365 * (y - 1970) + LeapsBefore(y) - LeapsBefore(1970)

DaysInMonth(y, m) ==
    IF m = 2 THEN (IF IsLeap(y) THEN 29 ELSE 28)
    ELSE IF m \in {4, 6, 9, 11} THEN 30 ELSE 31

RECURSIVE DaysBeforeMonth(_, _)
DaysBeforeMonth(y, m) ==
    IF m <= 1 THEN 0 ELSE DaysBeforeMonth(y, m - 1) + DaysInMonth(y, m - 1)

\* new Date(s) of a date-only ISO string: midnight UTC of that day, or the
\* invalid date when the string is no date.  The month is 01..12 and the day
\* 01..31; a day the month does not have runs over into the next month
\* (2025-02-30 is 2 March 2025)
NewDate(s) ==
    IF s.m \in 1..12 /\ s.d \in 1..31
    THEN [valid |-> TRUE,
          t |-> 24 * (DaysBeforeYear(s.y) + DaysBeforeMonth(s.y, s.m) + s.d - 1)]
    ELSE [valid |-> FALSE, t |-> 0]

\* Date.prototype.getFullYear of a valid date: the year of the local calendar
getFullYear(date) ==
    LET day == (date.t + tz) \div 24
    IN  CHOOSE y \in 2022..(LastYear + 1) :
            DaysBeforeYear(y) <= day /\ day < DaysBeforeYear(y + 1)

getCurrentTaxYear == getFullYear(now)

\* -------------------------------------------------------- rate schedule

\* args is the argument list of the call: <<>> takes the default parameter
getCITRate(args) ==
    LET year == IF Len(args) = 0 THEN getCurrentTaxYear ELSE args[1]
    IN  IF year = 2025 THEN CIT_2025 ELSE CIT_2026_ONWARDS

\* the mutant of C5: the 4% band ends a year late
getDevelopmentLevyRate_lateBand(args) ==
    LET year == IF Len(args) = 0 THEN getCurrentTaxYear ELSE args[1]
    IN  IF year >= 2025 /\ year <= 2027 THEN DEV_LEVY_2025_2026
        ELSE IF year >= 2028 /\ year <= 2029 THEN DEV_LEVY_2027_2029
        ELSE DEV_LEVY_2030_ONWARDS

getDevelopmentLevyRate(args) ==
    LET year == IF Len(args) = 0 THEN getCurrentTaxYear ELSE args[1]
    IN  IF year >= 2025 /\ year <= 2026 THEN DEV_LEVY_2025_2026
        ELSE IF year >= 2027 /\ year <= 2029 THEN DEV_LEVY_2027_2029
        ELSE DEV_LEVY_2030_ONWARDS

\* ------------------------------------------------------ classifyEntity

\* one entry of the reasoning trail: a fixed line, or a threshold test
\* with its mark and the two amounts it prints
Line(text) == [text |-> text, mark |-> "", amount |-> 0, limit |-> 0]

TestLine(text, met, amount, limit) ==
    [text |-> text, mark |-> IF met THEN "pass" ELSE "fail",
     amount |-> amount, limit |-> limit]

Return(value) == [kind |-> "return", value |-> value]

Throw(message) == [kind |-> "throw", error |-> "Error", message |-> message]

\* the mutant of C2: a STANDARD result that leaves the levy flag off
buildStandardResult_noLevy(input, reasoning, failureReason) ==
    [classification |-> "STANDARD",
     citExempt |-> FALSE,
     devLevyApplicable |-> FALSE,
     reasoning |-> reasoning,
     thresholds |-> [turnoverThreshold |-> TURNOVER_THRESHOLD,
                     assetsThreshold |-> ASSETS_THRESHOLD,
                     turnoverMet |-> input.turnover <= TURNOVER_THRESHOLD,
                     assetsMet |-> input.fixedAssets <= ASSETS_THRESHOLD],
     taxImplications |-> [citRate |-> CIT_2026_ONWARDS,
                          devLevyRate |-> DEV_LEVY_2025_2026,
                          vatApplicable |-> TRUE]]

buildStandardResult(input, reasoning, failureReason) ==
    LET pushed == reasoning \o
            << Line(""), Line("CLASSIFICATION: STANDARD COMPANY"),
               Line("Tax implications:"),
               Line("Subject to Company Income Tax (CIT) at 25% (from 2026)"),
               Line("Subject to Development Levy at 4% (2025-2026)"),
               Line("Subject to VAT at applicable rates") >>
        tMet == input.turnover <= TURNOVER_THRESHOLD
        aMet == input.fixedAssets <= ASSETS_THRESHOLD
    IN  [classification |-> "STANDARD",
         citExempt |-> FALSE,
         devLevyApplicable |-> TRUE,
         reasoning |-> pushed,
         thresholds |-> [turnoverThreshold |-> TURNOVER_THRESHOLD,
                         assetsThreshold |-> ASSETS_THRESHOLD,
                         turnoverMet |-> tMet,
                         assetsMet |-> aMet],
         taxImplications |-> [citRate |-> CIT_2026_ONWARDS,
                              devLevyRate |-> DEV_LEVY_2025_2026,
                              vatApplicable |-> TRUE]]

\* the mutant of C3: the guard looks at the turnover only
negativeAmount_turnoverOnly(input) == input.turnover < 0

\* the guard of line 133
negativeAmount(input) == input.turnover < 0 \/ input.fixedAssets < 0

\* the mutant of C1: the turnover test is strict
turnoverMet_strict(input) == input.turnover < TURNOVER_THRESHOLD

turnoverMet(input) == input.turnover <= TURNOVER_THRESHOLD

assetsMet(input) == input.fixedAssets <= ASSETS_THRESHOLD

\* the mutant of C23: the assets test is skipped once the turnover test failed
classifyEntity_shortCircuit(input) ==
    IF negativeAmount(input)
    THEN Throw("Turnover and fixed assets must be non-negative")
    ELSE IF input.isProfessionalServices
    THEN Return(buildStandardResult(input,
            << Line("Professional services exclusion"),
               Line("Professional services businesses cannot qualify as SMALL companies per Section 56") >>,
            "professional_services"))
    ELSE
    LET tMet == turnoverMet(input)
        aMet == assetsMet(input)
        reasoning ==
            << TestLine("Turnover test", tMet, input.turnover, TURNOVER_THRESHOLD) >>
            \o IF tMet
               THEN << TestLine("Assets test", aMet, input.fixedAssets, ASSETS_THRESHOLD) >>
               ELSE <<>>
        isSmall == tMet /\ aMet
    IN  IF isSmall
        THEN Return(
               [classification |-> "SMALL",
                citExempt |-> TRUE,
                devLevyApplicable |-> FALSE,
                reasoning |-> reasoning \o
                    << Line(""), Line("CLASSIFICATION: SMALL COMPANY"),
                       Line("Tax implications:"),
                       Line("EXEMPT from Company Income Tax (CIT)"),
                       Line("NOT subject to Development Levy"),
                       Line("Subject to VAT at applicable rates") >>,
                thresholds |-> [turnoverThreshold |-> TURNOVER_THRESHOLD,
                                assetsThreshold |-> ASSETS_THRESHOLD,
                                turnoverMet |-> tMet,
                                assetsMet |-> aMet],
                taxImplications |-> [citRate |-> 0,
                                     devLevyRate |-> 0,
                                     vatApplicable |-> TRUE]])
        ELSE LET failureReason ==
                    IF ~tMet /\ ~aMet THEN "both_thresholds"
                    ELSE IF ~tMet THEN "turnover" ELSE "assets"
             IN  Return(buildStandardResult(input, reasoning, failureReason))

classifyEntity(input) ==
    IF negativeAmount(input)
    THEN Throw("Turnover and fixed assets must be non-negative")
    ELSE IF input.isProfessionalServices
    THEN Return(buildStandardResult(input,
            << Line("Professional services exclusion"),
               Line("Professional services businesses cannot qualify as SMALL companies per Section 56") >>,
            "professional_services"))
    ELSE
    LET tMet == turnoverMet(input)
        aMet == assetsMet(input)
        reasoning ==
            << TestLine("Turnover test", tMet, input.turnover, TURNOVER_THRESHOLD),
               TestLine("Assets test", aMet, input.fixedAssets, ASSETS_THRESHOLD) >>
        isSmall == tMet /\ aMet
    IN  IF isSmall
        THEN Return(
               [classification |-> "SMALL",
                citExempt |-> TRUE,
                devLevyApplicable |-> FALSE,
                reasoning |-> reasoning \o
                    << Line(""), Line("CLASSIFICATION: SMALL COMPANY"),
                       Line("Tax implications:"),
                       Line("EXEMPT from Company Income Tax (CIT)"),
                       Line("NOT subject to Development Levy"),
                       Line("Subject to VAT at applicable rates") >>,
                thresholds |-> [turnoverThreshold |-> TURNOVER_THRESHOLD,
                                assetsThreshold |-> ASSETS_THRESHOLD,
                                turnoverMet |-> tMet,
                                assetsMet |-> aMet],
                taxImplications |-> [citRate |-> 0,
                                     devLevyRate |-> 0,
                                     vatApplicable |-> TRUE]])
        ELSE LET failureReason ==
                    IF ~tMet /\ ~aMet THEN "both_thresholds"
                    ELSE IF ~tMet THEN "turnover" ELSE "assets"
             IN  Return(buildStandardResult(input, reasoning, failureReason))

\* ---------------------------------------------------------------- calls

Pending == [kind |-> "pending"]

\* amounts around 0 and around a threshold
Amounts(threshold) ==
    { d : d \in (-MaxDelta)..0 } \cup
    { threshold + d : d \in (-MaxDelta)..MaxDelta }

ClassificationInputs ==
    [turnover : Amounts(TURNOVER_THRESHOLD),
     fixedAssets : Amounts(ASSETS_THRESHOLD),
     isProfessionalServices : BOOLEAN]

YearArgs == { <<>> } \cup { <<y>> : y \in Years }

ClassifierCalls ==
    { [op |-> "classifyEntity", input |-> i] : i \in ClassificationInputs } \cup
    { [op |-> "getCITRate", args |-> a] : a \in YearArgs } \cup
    { [op |-> "getDevelopmentLevyRate", args |-> a] : a \in YearArgs }

\* the clock reads the first hour of a year (UTC) or the middle of it
Clock ==
    { NewDate([y |-> y, m |-> 1, d |-> 1]) : y \in Years } \cup
    { NewDate([y |-> y, m |-> 7, d |-> 1]) : y \in Years }

Init ==
    /\ now \in Clock
    /\ tz \in TZOffsets
    /\ req \in ClassifierCalls
    /\ ret = Pending

ClassifyEntity ==
    /\ ret = Pending
    /\ req.op = "classifyEntity"
    /\ ret' = classifyEntity(req.input)
    /\ UNCHANGED <<now, tz, req>>

GetCITRate ==
    /\ ret = Pending
    /\ req.op = "getCITRate"
    /\ ret' = Return(getCITRate(req.args))
    /\ UNCHANGED <<now, tz, req>>

GetDevelopmentLevyRate ==
    /\ ret = Pending
    /\ req.op = "getDevelopmentLevyRate"
    /\ ret' = Return(getDevelopmentLevyRate(req.args))
    /\ UNCHANGED <<now, tz, req>>

Next ==
    \/ ClassifyEntity
    \/ GetCITRate
    \/ GetDevelopmentLevyRate

Spec == Init /\ [][Next]_vars

\* ---------------------------------------------------- binary64 numbers
\* The Numbers of the code are IEEE 754 binary64.  The products with a rate,
\* the sums that hold such a product and the comparison with the tolerance
\* are computed as the standard defines them: the exact result, rounded to
\* 53 significant bits, ties to even.  The numbers met are within the range
\* of the normal numbers.
\*
\* A natural number of any size is the sequence of its digits in base Base,
\* the lowest first and the highest not 0; 0 is the empty sequence.

Base == 32768

LimbBits == 15

\* the bits a binary64 number keeps
Precision == 53

RECURSIVE Pow2(_)
Pow2(k) == IF k = 0 THEN 1 ELSE 2 * Pow2(k - 1)

RECURSIVE BitLength(_)
BitLength(n) == IF n = 0 THEN 0 ELSE 1 + BitLength(n \div 2)

RECURSIVE BigNorm(_)
BigNorm(a) ==
    IF a # <<>> /\ a[Len(a)] = 0 THEN BigNorm(SubSeq(a, 1, Len(a) - 1)) ELSE a

RECURSIVE BigFromInt(_)
BigFromInt(n) == IF n = 0 THEN <<>> ELSE <<n % Base>> \o BigFromInt(n \div Base)

Limb(a, i) == IF i <= Len(a) THEN a[i] ELSE 0

RECURSIVE BigAddFrom(_, _, _, _)
BigAddFrom(a, b, i, carry) ==
    IF i > Len(a) /\ i > Len(b) THEN (IF carry = 0 THEN <<>> ELSE <<carry>>)
    ELSE LET t == Limb(a, i) + Limb(b, i) + carry
         IN  <<t % Base>> \o BigAddFrom(a, b, i + 1, t \div Base)

BigAdd(a, b) == BigAddFrom(a, b, 1, 0)

RECURSIVE BigSubFrom(_, _, _, _)
BigSubFrom(a, b, i, borrow) ==
    IF i > Len(a) THEN <<>>
    ELSE LET t == a[i] - Limb(b, i) - borrow
         IN  <<t % Base>> \o BigSubFrom(a, b, i + 1, IF t < 0 THEN 1 ELSE 0)

\* a - b, for a >= b
BigSub(a, b) == BigNorm(BigSubFrom(a, b, 1, 0))

RECURSIVE BigCmpFrom(_, _, _)
BigCmpFrom(a, b, i) ==
    IF i = 0 THEN 0
    ELSE IF a[i] # b[i] THEN (IF a[i] > b[i] THEN 1 ELSE -1)
    ELSE BigCmpFrom(a, b, i - 1)

\* -1, 0 or 1 as a is below, equal to or above b
BigCmp(a, b) ==
    IF Len(a) # Len(b) THEN (IF Len(a) > Len(b) THEN 1 ELSE -1)
    ELSE BigCmpFrom(a, b, Len(a))

RECURSIVE BigMulSmallFrom(_, _, _, _)
BigMulSmallFrom(a, k, i, carry) ==
    IF i > Len(a) THEN (IF carry = 0 THEN <<>> ELSE <<carry>>)
    ELSE LET t == a[i] * k + carry
         IN  <<t % Base>> \o BigMulSmallFrom(a, k, i + 1, t \div Base)

\* a * k, for k < Base
BigMulSmall(a, k) == IF k = 0 THEN <<>> ELSE BigMulSmallFrom(a, k, 1, 0)

RECURSIVE BigMul(_, _)
BigMul(a, b) ==
    IF a = <<>> \/ b = <<>> THEN <<>>
    ELSE LET rest == BigMul(a, Tail(b))
         IN  BigAdd(BigMulSmall(a, Head(b)),
                    IF rest = <<>> THEN <<>> ELSE <<0>> \o rest)

RECURSIVE BigDivSmallFrom(_, _, _, _)
BigDivSmallFrom(a, d, i, r) ==
    IF i = 0 THEN [q |-> <<>>, r |-> r]
    ELSE LET t == r * Base + a[i]
             rest == BigDivSmallFrom(a, d, i - 1, t % d)
         IN  [q |-> Append(rest.q, t \div d), r |-> rest.r]

\* a quotient without leading zeros, and its remainder
Normalised(x) == [q |-> BigNorm(x.q), r |-> x.r]

\* quotient and remainder of a by d, for 0 < d <= Base
BigDivSmall(a, d) == Normalised(BigDivSmallFrom(a, d, Len(a), 0))

\* a * 2^k
BigShiftLeft(a, k) ==
    IF a = <<>> THEN <<>>
    ELSE [i \in 1..(k \div LimbBits) |-> 0] \o BigMulSmall(a, Pow2(k % LimbBits))

\* a \div 2^k
BigShiftRight(a, k) ==
    IF k \div LimbBits >= Len(a) THEN <<>>
    ELSE BigDivSmall(SubSeq(a, k \div LimbBits + 1, Len(a)), Pow2(k % LimbBits)).q

BigBitLength(a) ==
    IF a = <<>> THEN 0 ELSE LimbBits * (Len(a) - 1) + BitLength(a[Len(a)])

BigOdd(a) == a # <<>> /\ a[1] % 2 = 1

\* the binary64 number (-1)^neg * m * 2^e.  m has Precision bits; 0 and -0
\* have m = <<>> and e = 0.  Two Numbers are the same record exactly when
\* they are the same Number.
Binary64(neg, m, e) == [neg |-> neg, m |-> m, e |-> e]

Zero64 == Binary64(FALSE, <<>>, 0)

\* a significand that rounding up has carried to one bit too many
Renormalised(neg, m, e) ==
    IF BigBitLength(m) > Precision THEN Binary64(neg, BigShiftRight(m, 1), e + 1)
    ELSE Binary64(neg, m, e)

\* q * 2^e rounded up or not: c is -1, 0 or 1 as what was dropped is below,
\* equal to or above half a unit of q, sticky tells that more than that was
\* dropped; a tie goes to the even significand
Rounded(neg, q, c, sticky, e) ==
    Renormalised(neg,
                 IF c = 1 \/ (c = 0 /\ (sticky \/ BigOdd(q)))
                 THEN BigAdd(q, <<1>>) ELSE q,
                 e)

\* the lowest k bits of n
LowBits(n, k) == BigSub(n, BigShiftLeft(BigShiftRight(n, k), k))

\* the lowest k bits of n against half of 2^k
HalfCmp(n, k) == BigCmp(LowBits(n, k), BigShiftLeft(<<1>>, k - 1))

\* n * 2^e, n having k bits more than a significand: the lowest k bits are
\* rounded off, or n is padded with -k bits
Dropping(neg, n, sticky, e, k) ==
    IF k <= 0 THEN Binary64(neg, BigShiftLeft(n, -k), e + k)
    ELSE Rounded(neg, BigShiftRight(n, k), HalfCmp(n, k), sticky, e + k)

\* the binary64 number nearest to (n + f) * 2^e, where n > 0, 0 <= f < 1 and
\* f > 0 exactly when sticky: round to nearest, ties to even
RoundToBinary64(neg, n, sticky, e) ==
    Dropping(neg, n, sticky, e, BigBitLength(n) - Precision)

\* bits of the quotient that FromRatio computes
QuotientBits == 75

\* the binary64 number nearest to the quotient x, with its remainder, of
\* a numerator scaled by 2^QuotientBits
Quotient64(neg, x) == RoundToBinary64(neg, x.q, x.r # 0, -QuotientBits)

\* the Number a decimal literal of value n / d denotes, for 0 < d <= Base
FromRatio(n, d) ==
    IF n = 0 THEN Zero64
    ELSE Quotient64(n < 0,
                    BigDivSmall(BigShiftLeft(BigFromInt(IF n < 0 THEN -n ELSE n),
                                             QuotientBits), d))

\* the Number of an integer
FromInt(n) ==
    IF n = 0 THEN Zero64
    ELSE RoundToBinary64(n < 0, BigFromInt(IF n < 0 THEN -n ELSE n), FALSE, 0)

\* x * y; a product with 0 is 0 with the sign of the product
Times64(x, y) ==
    IF x.m = <<>> \/ y.m = <<>> THEN Binary64(x.neg # y.neg, <<>>, 0)
    ELSE RoundToBinary64(x.neg # y.neg, BigMul(x.m, y.m), FALSE, x.e + y.e)

\* the sign of the sum of two numbers of magnitudes a and b
SumSign(xneg, a, yneg, b) ==
    IF xneg = yneg \/ BigCmp(a, b) >= 0 THEN xneg ELSE yneg

\* the magnitude of that sum
SumMagnitude(xneg, a, yneg, b) ==
    IF xneg = yneg THEN BigAdd(a, b)
    ELSE IF BigCmp(a, b) >= 0 THEN BigSub(a, b)
    ELSE BigSub(b, a)

\* the Number of sign neg and magnitude n * 2^e that a sum comes to; a sum
\* that cancels is 0
Summed(neg, n, e) ==
    IF n = <<>> THEN Zero64 ELSE RoundToBinary64(neg, n, FALSE, e)

\* the sum of (-1)^xneg * a * 2^e and (-1)^yneg * b * 2^e
Aligned(xneg, a, yneg, b, e) ==
    Summed(SumSign(xneg, a, yneg, b), SumMagnitude(xneg, a, yneg, b), e)

\* x + y of two numbers other than 0, e being the lower of their exponents
PlusAt(x, y, e) ==
    Aligned(x.neg, BigShiftLeft(x.m, x.e - e), y.neg, BigShiftLeft(y.m, y.e - e), e)

\* x + y; 0 + 0 is -0 only when both are -0
Plus64(x, y) ==
    IF x.m = <<>> /\ y.m = <<>> THEN Binary64(x.neg /\ y.neg, <<>>, 0)
    ELSE IF x.m = <<>> THEN y
    ELSE IF y.m = <<>> THEN x
    ELSE PlusAt(x, y, IF x.e <= y.e THEN x.e ELSE y.e)

\* x - y
Minus64(x, y) == Plus64(x, [y EXCEPT !.neg = ~@])

\* Math.abs(x)
Abs64(x) == [x EXCEPT !.neg = FALSE]

\* x === y: 0 and -0 are equal
Equal64(x, y) == x = y \/ (x.m = <<>> /\ y.m = <<>>)

\* x > 0
Positive64(x) == x.m # <<>> /\ ~x.neg

\* x > y: the difference is above 0
Greater64(x, y) == Positive64(Minus64(x, y))

\* ============================================================ VAT engine

BASIC_ITEMS == 0

STANDARD_2025 == 20

STANDARD_2026_2029 == 25

STANDARD_2030 == 30

\* the Number a rate is: the one the decimal literal rate / RateScale
\* denotes (20 is the Number 0.1)
RateNumbers == [rate \in 0..RateScale |-> FromRatio(rate, RateScale)]

\* amount * rate of two Numbers, the amount given in whole naira and the
\* rate in units of 1/RateScale
TimesRate(amount, rate) == Times64(FromInt(amount), RateNumbers[rate])

\* ------------------------------------------------------------- strings
\* A string is the sequence of its characters, each the number of its code
\* point.

\* the printable characters of ASCII, from the space (32) to the tilde
\* (126); the grave accent (96) stands under its name
Printable ==
    <<
       " ", "!", "\"", "#", "$", "%", "&", "'", "(", ")", "*", "+", ",", "-", ".", "/",
       "0", "1", "2", "3", "4", "5", "6", "7", "8", "9", ":", ";", "<", "=", ">", "?",
       "@", "A", "B", "C", "D", "E", "F", "G", "H", "I", "J", "K", "L", "M", "N", "O",
       "P", "Q", "R", "S", "T", "U", "V", "W", "X", "Y", "Z", "[", "\\", "]", "^", "_",
       "grave", "a", "b", "c", "d", "e", "f", "g", "h", "i", "j", "k", "l", "m", "n", "o",
       "p", "q", "r", "s", "t", "u", "v", "w", "x", "y", "z", "{", "|", "}", "~" >>

CodePoint(c) == 31 + CHOOSE k \in 1..Len(Printable) : Printable[k] = c

\* the string of a sequence of printable characters
Text(s) == [i \in 1..Len(s) |-> CodePoint(s[i])]

BASIC_ITEMS_KEYWORDS ==
    << Text(<<"b","r","e","a","d">>),
       Text(<<"r","i","c","e">>),
       Text(<<"m","a","i","z","e">>),
       Text(<<"w","h","e","a","t">>),
       Text(<<"m","i","l","l","e","t">>),
       Text(<<"b","a","r","l","e","y">>),
       Text(<<"s","o","r","g","h","u","m">>),
       Text(<<"o","a","t","s">>),
       Text(<<"b","e","a","n","s">>),
       Text(<<"m","i","l","k">>),
       Text(<<"f","i","s","h">>),
       Text(<<"m","e","a","t">>),
       Text(<<"c","h","i","c","k","e","n">>),
       Text(<<"e","g","g">>),
       Text(<<"c","o","o","k","i","n","g"," ","o","i","l">>),
       Text(<<"p","a","l","m"," ","o","i","l">>),
       Text(<<"v","e","g","e","t","a","b","l","e"," ","o","i","l">>),
       Text(<<"s","a","l","t">>),
       Text(<<"y","a","m">>),
       Text(<<"c","a","s","s","a","v","a">>),
       Text(<<"p","o","t","a","t","o">>),
       Text(<<"p","l","a","n","t","a","i","n">>),
       Text(<<"g","a","r","r","i">>),
       Text(<<"h","o","n","e","y">>),
       Text(<<"f","l","o","u","r">>) >>

\* The simple lower-case mappings of the Unicode Character Database (17.0):
\* <<first, last, step, delta>> sends every step-th code point from first
\* to last to the code point delta further on.  No two entries hold the
\* same code point.
LowerRules ==
    <<
       <<65, 90, 1, 32>>, <<192, 214, 1, 32>>, <<216, 222, 1, 32>>, <<256, 302, 2, 1>>,
       <<306, 310, 2, 1>>, <<313, 327, 2, 1>>, <<330, 374, 2, 1>>, <<376, 376, 1, -121>>,
       <<377, 381, 2, 1>>, <<385, 385, 1, 210>>, <<386, 388, 2, 1>>, <<390, 390, 1, 206>>,
       <<391, 391, 1, 1>>, <<393, 394, 1, 205>>, <<395, 395, 1, 1>>, <<398, 398, 1, 79>>,
       <<399, 399, 1, 202>>, <<400, 400, 1, 203>>, <<401, 401, 1, 1>>, <<403, 403, 1, 205>>,
       <<404, 404, 1, 207>>, <<406, 406, 1, 211>>, <<407, 407, 1, 209>>, <<408, 408, 1, 1>>,
       <<412, 412, 1, 211>>, <<413, 413, 1, 213>>, <<415, 415, 1, 214>>, <<416, 420, 2, 1>>,
       <<422, 422, 1, 218>>, <<423, 423, 1, 1>>, <<425, 425, 1, 218>>, <<428, 428, 1, 1>>,
       <<430, 430, 1, 218>>, <<431, 431, 1, 1>>, <<433, 434, 1, 217>>, <<435, 437, 2, 1>>,
       <<439, 439, 1, 219>>, <<440, 440, 1, 1>>, <<444, 444, 1, 1>>, <<452, 452, 1, 2>>,
       <<453, 453, 1, 1>>, <<455, 455, 1, 2>>, <<456, 456, 1, 1>>, <<458, 458, 1, 2>>,
       <<459, 475, 2, 1>>, <<478, 494, 2, 1>>, <<497, 497, 1, 2>>, <<498, 500, 2, 1>>,
       <<502, 502, 1, -97>>, <<503, 503, 1, -56>>, <<504, 542, 2, 1>>, <<544, 544, 1, -130>>,
       <<546, 562, 2, 1>>, <<570, 570, 1, 10795>>, <<571, 571, 1, 1>>, <<573, 573, 1, -163>>,
       <<574, 574, 1, 10792>>, <<577, 577, 1, 1>>, <<579, 579, 1, -195>>, <<580, 580, 1, 69>>,
       <<581, 581, 1, 71>>, <<582, 590, 2, 1>>, <<880, 882, 2, 1>>, <<886, 886, 1, 1>>,
       <<895, 895, 1, 116>>, <<902, 902, 1, 38>>, <<904, 906, 1, 37>>, <<908, 908, 1, 64>>,
       <<910, 911, 1, 63>>, <<913, 929, 1, 32>>, <<931, 939, 1, 32>>, <<975, 975, 1, 8>>,
       <<984, 1006, 2, 1>>, <<1012, 1012, 1, -60>>, <<1015, 1015, 1, 1>>, <<1017, 1017, 1, -7>>,
       <<1018, 1018, 1, 1>>, <<1021, 1023, 1, -130>>, <<1024, 1039, 1, 80>>, <<1040, 1071, 1, 32>>,
       <<1120, 1152, 2, 1>>, <<1162, 1214, 2, 1>>, <<1216, 1216, 1, 15>>, <<1217, 1229, 2, 1>>,
       <<1232, 1326, 2, 1>>, <<1329, 1366, 1, 48>>, <<4256, 4293, 1, 7264>>, <<4295, 4295, 1, 7264>>,
       <<4301, 4301, 1, 7264>>, <<5024, 5103, 1, 38864>>, <<5104, 5109, 1, 8>>, <<7305, 7305, 1, 1>>,
       <<7312, 7354, 1, -3008>>, <<7357, 7359, 1, -3008>>, <<7680, 7828, 2, 1>>, <<7838, 7838, 1, -7615>>,
       <<7840, 7934, 2, 1>>, <<7944, 7951, 1, -8>>, <<7960, 7965, 1, -8>>, <<7976, 7983, 1, -8>>,
       <<7992, 7999, 1, -8>>, <<8008, 8013, 1, -8>>, <<8025, 8031, 2, -8>>, <<8040, 8047, 1, -8>>,
       <<8072, 8079, 1, -8>>, <<8088, 8095, 1, -8>>, <<8104, 8111, 1, -8>>, <<8120, 8121, 1, -8>>,
       <<8122, 8123, 1, -74>>, <<8124, 8124, 1, -9>>, <<8136, 8139, 1, -86>>, <<8140, 8140, 1, -9>>,
       <<8152, 8153, 1, -8>>, <<8154, 8155, 1, -100>>, <<8168, 8169, 1, -8>>, <<8170, 8171, 1, -112>>,
       <<8172, 8172, 1, -7>>, <<8184, 8185, 1, -128>>, <<8186, 8187, 1, -126>>, <<8188, 8188, 1, -9>>,
       <<8486, 8486, 1, -7517>>, <<8490, 8490, 1, -8383>>, <<8491, 8491, 1, -8262>>, <<8498, 8498, 1, 28>>,
       <<8544, 8559, 1, 16>>, <<8579, 8579, 1, 1>>, <<9398, 9423, 1, 26>>, <<11264, 11311, 1, 48>>,
       <<11360, 11360, 1, 1>>, <<11362, 11362, 1, -10743>>, <<11363, 11363, 1, -3814>>, <<11364, 11364, 1, -10727>>,
       <<11367, 11371, 2, 1>>, <<11373, 11373, 1, -10780>>, <<11374, 11374, 1, -10749>>, <<11375, 11375, 1, -10783>>,
       <<11376, 11376, 1, -10782>>, <<11378, 11378, 1, 1>>, <<11381, 11381, 1, 1>>, <<11390, 11391, 1, -10815>>,
       <<11392, 11490, 2, 1>>, <<11499, 11501, 2, 1>>, <<11506, 11506, 1, 1>>, <<42560, 42604, 2, 1>>,
       <<42624, 42650, 2, 1>>, <<42786, 42798, 2, 1>>, <<42802, 42862, 2, 1>>, <<42873, 42875, 2, 1>>,
       <<42877, 42877, 1, -35332>>, <<42878, 42886, 2, 1>>, <<42891, 42891, 1, 1>>, <<42893, 42893, 1, -42280>>,
       <<42896, 42898, 2, 1>>, <<42902, 42920, 2, 1>>, <<42922, 42922, 1, -42308>>, <<42923, 42923, 1, -42319>>,
       <<42924, 42924, 1, -42315>>, <<42925, 42925, 1, -42305>>, <<42926, 42926, 1, -42308>>, <<42928, 42928, 1, -42258>>,
       <<42929, 42929, 1, -42282>>, <<42930, 42930, 1, -42261>>, <<42931, 42931, 1, 928>>, <<42932, 42946, 2, 1>>,
       <<42948, 42948, 1, -48>>, <<42949, 42949, 1, -42307>>, <<42950, 42950, 1, -35384>>, <<42951, 42953, 2, 1>>,
       <<42955, 42955, 1, -42343>>, <<42956, 42970, 2, 1>>, <<42972, 42972, 1, -42561>>, <<42997, 42997, 1, 1>>,
       <<65313, 65338, 1, 32>>, <<66560, 66599, 1, 40>>, <<66736, 66771, 1, 40>>, <<66928, 66964, 2, 39>>,
       <<66929, 66937, 2, 39>>, <<66941, 66953, 2, 39>>, <<66957, 66961, 2, 39>>, <<66965, 66965, 1, 39>>,
       <<68736, 68786, 1, 64>>, <<68944, 68965, 1, 32>>, <<71840, 71871, 1, 32>>, <<93760, 93791, 1, 32>>,
       <<93856, 93880, 1, 27>>, <<125184, 125217, 1, 34>> >>

\* the code points with the property Cased, as ranges <<first, last>>
Cased ==
    <<
       <<65, 90>>, <<97, 122>>, <<170, 170>>, <<181, 181>>, <<186, 186>>, <<192, 214>>,
       <<216, 246>>, <<248, 442>>, <<444, 447>>, <<452, 659>>, <<662, 696>>, <<704, 705>>,
       <<736, 740>>, <<837, 837>>, <<880, 883>>, <<886, 887>>, <<890, 893>>, <<895, 895>>,
       <<902, 902>>, <<904, 906>>, <<908, 908>>, <<910, 929>>, <<931, 1013>>, <<1015, 1153>>,
       <<1162, 1327>>, <<1329, 1366>>, <<1376, 1416>>, <<4256, 4293>>, <<4295, 4295>>, <<4301, 4301>>,
       <<4304, 4346>>, <<4348, 4351>>, <<5024, 5109>>, <<5112, 5117>>, <<7296, 7306>>, <<7312, 7354>>,
       <<7357, 7359>>, <<7424, 7615>>, <<7680, 7957>>, <<7960, 7965>>, <<7968, 8005>>, <<8008, 8013>>,
       <<8016, 8023>>, <<8025, 8025>>, <<8027, 8027>>, <<8029, 8029>>, <<8031, 8061>>, <<8064, 8116>>,
       <<8118, 8124>>, <<8126, 8126>>, <<8130, 8132>>, <<8134, 8140>>, <<8144, 8147>>, <<8150, 8155>>,
       <<8160, 8172>>, <<8178, 8180>>, <<8182, 8188>>, <<8305, 8305>>, <<8319, 8319>>, <<8336, 8348>>,
       <<8450, 8450>>, <<8455, 8455>>, <<8458, 8467>>, <<8469, 8469>>, <<8473, 8477>>, <<8484, 8484>>,
       <<8486, 8486>>, <<8488, 8488>>, <<8490, 8493>>, <<8495, 8500>>, <<8505, 8505>>, <<8508, 8511>>,
       <<8517, 8521>>, <<8526, 8526>>, <<8544, 8575>>, <<8579, 8580>>, <<9398, 9449>>, <<11264, 11492>>,
       <<11499, 11502>>, <<11506, 11507>>, <<11520, 11557>>, <<11559, 11559>>, <<11565, 11565>>, <<42560, 42605>>,
       <<42624, 42653>>, <<42786, 42887>>, <<42891, 42894>>, <<42896, 42972>>, <<42993, 42998>>, <<43000, 43002>>,
       <<43824, 43866>>, <<43868, 43881>>, <<43888, 43967>>, <<64256, 64262>>, <<64275, 64279>>, <<65313, 65338>>,
       <<65345, 65370>>, <<66560, 66639>>, <<66736, 66771>>, <<66776, 66811>>, <<66928, 66938>>, <<66940, 66954>>,
       <<66956, 66962>>, <<66964, 66965>>, <<66967, 66977>>, <<66979, 66993>>, <<66995, 67001>>, <<67003, 67004>>,
       <<67456, 67456>>, <<67459, 67461>>, <<67463, 67504>>, <<67506, 67514>>, <<68736, 68786>>, <<68800, 68850>>,
       <<68944, 68965>>, <<68976, 68997>>, <<71840, 71903>>, <<93760, 93823>>, <<93856, 93880>>, <<93883, 93907>>,
       <<119808, 119892>>, <<119894, 119964>>, <<119966, 119967>>, <<119970, 119970>>, <<119973, 119974>>, <<119977, 119980>>,
       <<119982, 119993>>, <<119995, 119995>>, <<119997, 120003>>, <<120005, 120069>>, <<120071, 120074>>, <<120077, 120084>>,
       <<120086, 120092>>, <<120094, 120121>>, <<120123, 120126>>, <<120128, 120132>>, <<120134, 120134>>, <<120138, 120144>>,
       <<120146, 120485>>, <<120488, 120512>>, <<120514, 120538>>, <<120540, 120570>>, <<120572, 120596>>, <<120598, 120628>>,
       <<120630, 120654>>, <<120656, 120686>>, <<120688, 120712>>, <<120714, 120744>>, <<120746, 120770>>, <<120772, 120779>>,
       <<122624, 122633>>, <<122635, 122654>>, <<122661, 122666>>, <<122928, 122989>>, <<125184, 125251>>, <<127280, 127305>>,
       <<127312, 127337>>, <<127344, 127369>> >>

\* the code points with the property Case_Ignorable, as ranges
CaseIgnorable ==
    <<
       <<39, 39>>, <<46, 46>>, <<58, 58>>, <<94, 94>>, <<96, 96>>, <<168, 168>>,
       <<173, 173>>, <<175, 175>>, <<180, 180>>, <<183, 184>>, <<688, 879>>, <<884, 885>>,
       <<890, 890>>, <<900, 901>>, <<903, 903>>, <<1155, 1161>>, <<1369, 1369>>, <<1375, 1375>>,
       <<1425, 1469>>, <<1471, 1471>>, <<1473, 1474>>, <<1476, 1477>>, <<1479, 1479>>, <<1524, 1524>>,
       <<1536, 1541>>, <<1552, 1562>>, <<1564, 1564>>, <<1600, 1600>>, <<1611, 1631>>, <<1648, 1648>>,
       <<1750, 1757>>, <<1759, 1768>>, <<1770, 1773>>, <<1807, 1807>>, <<1809, 1809>>, <<1840, 1866>>,
       <<1958, 1968>>, <<2027, 2037>>, <<2042, 2042>>, <<2045, 2045>>, <<2070, 2093>>, <<2137, 2139>>,
       <<2184, 2184>>, <<2192, 2193>>, <<2199, 2207>>, <<2249, 2306>>, <<2362, 2362>>, <<2364, 2364>>,
       <<2369, 2376>>, <<2381, 2381>>, <<2385, 2391>>, <<2402, 2403>>, <<2417, 2417>>, <<2433, 2433>>,
       <<2492, 2492>>, <<2497, 2500>>, <<2509, 2509>>, <<2530, 2531>>, <<2558, 2558>>, <<2561, 2562>>,
       <<2620, 2620>>, <<2625, 2626>>, <<2631, 2632>>, <<2635, 2637>>, <<2641, 2641>>, <<2672, 2673>>,
       <<2677, 2677>>, <<2689, 2690>>, <<2748, 2748>>, <<2753, 2757>>, <<2759, 2760>>, <<2765, 2765>>,
       <<2786, 2787>>, <<2810, 2815>>, <<2817, 2817>>, <<2876, 2876>>, <<2879, 2879>>, <<2881, 2884>>,
       <<2893, 2893>>, <<2901, 2902>>, <<2914, 2915>>, <<2946, 2946>>, <<3008, 3008>>, <<3021, 3021>>,
       <<3072, 3072>>, <<3076, 3076>>, <<3132, 3132>>, <<3134, 3136>>, <<3142, 3144>>, <<3146, 3149>>,
       <<3157, 3158>>, <<3170, 3171>>, <<3201, 3201>>, <<3260, 3260>>, <<3263, 3263>>, <<3270, 3270>>,
       <<3276, 3277>>, <<3298, 3299>>, <<3328, 3329>>, <<3387, 3388>>, <<3393, 3396>>, <<3405, 3405>>,
       <<3426, 3427>>, <<3457, 3457>>, <<3530, 3530>>, <<3538, 3540>>, <<3542, 3542>>, <<3633, 3633>>,
       <<3636, 3642>>, <<3654, 3662>>, <<3761, 3761>>, <<3764, 3772>>, <<3782, 3782>>, <<3784, 3790>>,
       <<3864, 3865>>, <<3893, 3893>>, <<3895, 3895>>, <<3897, 3897>>, <<3953, 3966>>, <<3968, 3972>>,
       <<3974, 3975>>, <<3981, 3991>>, <<3993, 4028>>, <<4038, 4038>>, <<4141, 4144>>, <<4146, 4151>>,
       <<4153, 4154>>, <<4157, 4158>>, <<4184, 4185>>, <<4190, 4192>>, <<4209, 4212>>, <<4226, 4226>>,
       <<4229, 4230>>, <<4237, 4237>>, <<4253, 4253>>, <<4348, 4348>>, <<4957, 4959>>, <<5906, 5908>>,
       <<5938, 5939>>, <<5970, 5971>>, <<6002, 6003>>, <<6068, 6069>>, <<6071, 6077>>, <<6086, 6086>>,
       <<6089, 6099>>, <<6103, 6103>>, <<6109, 6109>>, <<6155, 6159>>, <<6211, 6211>>, <<6277, 6278>>,
       <<6313, 6313>>, <<6432, 6434>>, <<6439, 6440>>, <<6450, 6450>>, <<6457, 6459>>, <<6679, 6680>>,
       <<6683, 6683>>, <<6742, 6742>>, <<6744, 6750>>, <<6752, 6752>>, <<6754, 6754>>, <<6757, 6764>>,
       <<6771, 6780>>, <<6783, 6783>>, <<6823, 6823>>, <<6832, 6877>>, <<6880, 6891>>, <<6912, 6915>>,
       <<6964, 6964>>, <<6966, 6970>>, <<6972, 6972>>, <<6978, 6978>>, <<7019, 7027>>, <<7040, 7041>>,
       <<7074, 7077>>, <<7080, 7081>>, <<7083, 7085>>, <<7142, 7142>>, <<7144, 7145>>, <<7149, 7149>>,
       <<7151, 7153>>, <<7212, 7219>>, <<7222, 7223>>, <<7288, 7293>>, <<7376, 7378>>, <<7380, 7392>>,
       <<7394, 7400>>, <<7405, 7405>>, <<7412, 7412>>, <<7416, 7417>>, <<7468, 7530>>, <<7544, 7544>>,
       <<7579, 7679>>, <<8125, 8125>>, <<8127, 8129>>, <<8141, 8143>>, <<8157, 8159>>, <<8173, 8175>>,
       <<8189, 8190>>, <<8203, 8207>>, <<8216, 8217>>, <<8228, 8228>>, <<8231, 8231>>, <<8234, 8238>>,
       <<8288, 8292>>, <<8294, 8303>>, <<8305, 8305>>, <<8319, 8319>>, <<8336, 8348>>, <<8400, 8432>>,
       <<11388, 11389>>, <<11503, 11505>>, <<11631, 11631>>, <<11647, 11647>>, <<11744, 11775>>, <<11823, 11823>>,
       <<12293, 12293>>, <<12330, 12333>>, <<12337, 12341>>, <<12347, 12347>>, <<12441, 12446>>, <<12540, 12542>>,
       <<40981, 40981>>, <<42232, 42237>>, <<42508, 42508>>, <<42607, 42610>>, <<42612, 42621>>, <<42623, 42623>>,
       <<42652, 42655>>, <<42736, 42737>>, <<42752, 42785>>, <<42864, 42864>>, <<42888, 42890>>, <<42993, 42996>>,
       <<43000, 43001>>, <<43010, 43010>>, <<43014, 43014>>, <<43019, 43019>>, <<43045, 43046>>, <<43052, 43052>>,
       <<43204, 43205>>, <<43232, 43249>>, <<43263, 43263>>, <<43302, 43309>>, <<43335, 43345>>, <<43392, 43394>>,
       <<43443, 43443>>, <<43446, 43449>>, <<43452, 43453>>, <<43471, 43471>>, <<43493, 43494>>, <<43561, 43566>>,
       <<43569, 43570>>, <<43573, 43574>>, <<43587, 43587>>, <<43596, 43596>>, <<43632, 43632>>, <<43644, 43644>>,
       <<43696, 43696>>, <<43698, 43700>>, <<43703, 43704>>, <<43710, 43711>>, <<43713, 43713>>, <<43741, 43741>>,
       <<43756, 43757>>, <<43763, 43764>>, <<43766, 43766>>, <<43867, 43871>>, <<43881, 43883>>, <<44005, 44005>>,
       <<44008, 44008>>, <<44013, 44013>>, <<64286, 64286>>, <<64434, 64450>>, <<65024, 65039>>, <<65043, 65043>>,
       <<65056, 65071>>, <<65106, 65106>>, <<65109, 65109>>, <<65279, 65279>>, <<65287, 65287>>, <<65294, 65294>>,
       <<65306, 65306>>, <<65342, 65342>>, <<65344, 65344>>, <<65392, 65392>>, <<65438, 65439>>, <<65507, 65507>>,
       <<65529, 65531>>, <<66045, 66045>>, <<66272, 66272>>, <<66422, 66426>>, <<67456, 67461>>, <<67463, 67504>>,
       <<67506, 67514>>, <<68097, 68099>>, <<68101, 68102>>, <<68108, 68111>>, <<68152, 68154>>, <<68159, 68159>>,
       <<68325, 68326>>, <<68900, 68903>>, <<68942, 68942>>, <<68969, 68973>>, <<68975, 68975>>, <<69291, 69292>>,
       <<69317, 69317>>, <<69370, 69375>>, <<69446, 69456>>, <<69506, 69509>>, <<69633, 69633>>, <<69688, 69702>>,
       <<69744, 69744>>, <<69747, 69748>>, <<69759, 69761>>, <<69811, 69814>>, <<69817, 69818>>, <<69821, 69821>>,
       <<69826, 69826>>, <<69837, 69837>>, <<69888, 69890>>, <<69927, 69931>>, <<69933, 69940>>, <<70003, 70003>>,
       <<70016, 70017>>, <<70070, 70078>>, <<70089, 70092>>, <<70095, 70095>>, <<70191, 70193>>, <<70196, 70196>>,
       <<70198, 70199>>, <<70206, 70206>>, <<70209, 70209>>, <<70367, 70367>>, <<70371, 70378>>, <<70400, 70401>>,
       <<70459, 70460>>, <<70464, 70464>>, <<70502, 70508>>, <<70512, 70516>>, <<70587, 70592>>, <<70606, 70606>>,
       <<70608, 70608>>, <<70610, 70610>>, <<70625, 70626>>, <<70712, 70719>>, <<70722, 70724>>, <<70726, 70726>>,
       <<70750, 70750>>, <<70835, 70840>>, <<70842, 70842>>, <<70847, 70848>>, <<70850, 70851>>, <<71090, 71093>>,
       <<71100, 71101>>, <<71103, 71104>>, <<71132, 71133>>, <<71219, 71226>>, <<71229, 71229>>, <<71231, 71232>>,
       <<71339, 71339>>, <<71341, 71341>>, <<71344, 71349>>, <<71351, 71351>>, <<71453, 71453>>, <<71455, 71455>>,
       <<71458, 71461>>, <<71463, 71467>>, <<71727, 71735>>, <<71737, 71738>>, <<71995, 71996>>, <<71998, 71998>>,
       <<72003, 72003>>, <<72148, 72151>>, <<72154, 72155>>, <<72160, 72160>>, <<72193, 72202>>, <<72243, 72248>>,
       <<72251, 72254>>, <<72263, 72263>>, <<72273, 72278>>, <<72281, 72283>>, <<72330, 72342>>, <<72344, 72345>>,
       <<72544, 72544>>, <<72546, 72548>>, <<72550, 72550>>, <<72752, 72758>>, <<72760, 72765>>, <<72767, 72767>>,
       <<72850, 72871>>, <<72874, 72880>>, <<72882, 72883>>, <<72885, 72886>>, <<73009, 73014>>, <<73018, 73018>>,
       <<73020, 73021>>, <<73023, 73029>>, <<73031, 73031>>, <<73104, 73105>>, <<73109, 73109>>, <<73111, 73111>>,
       <<73177, 73177>>, <<73459, 73460>>, <<73472, 73473>>, <<73526, 73530>>, <<73536, 73536>>, <<73538, 73538>>,
       <<73562, 73562>>, <<78896, 78912>>, <<78919, 78933>>, <<90398, 90409>>, <<90413, 90415>>, <<92912, 92916>>,
       <<92976, 92982>>, <<92992, 92995>>, <<93504, 93506>>, <<93547, 93548>>, <<94031, 94031>>, <<94095, 94111>>,
       <<94176, 94177>>, <<94179, 94180>>, <<94194, 94195>>, <<110576, 110579>>, <<110581, 110587>>, <<110589, 110590>>,
       <<113821, 113822>>, <<113824, 113827>>, <<118528, 118573>>, <<118576, 118598>>, <<119143, 119145>>, <<119155, 119170>>,
       <<119173, 119179>>, <<119210, 119213>>, <<119362, 119364>>, <<121344, 121398>>, <<121403, 121452>>, <<121461, 121461>>,
       <<121476, 121476>>, <<121499, 121503>>, <<121505, 121519>>, <<122880, 122886>>, <<122888, 122904>>, <<122907, 122913>>,
       <<122915, 122916>>, <<122918, 122922>>, <<122928, 122989>>, <<123023, 123023>>, <<123184, 123197>>, <<123566, 123566>>,
       <<123628, 123631>>, <<124139, 124143>>, <<124398, 124399>>, <<124643, 124643>>, <<124646, 124646>>, <<124654, 124655>>,
       <<124661, 124661>>, <<124671, 124671>>, <<125136, 125142>>, <<125252, 125259>>, <<127995, 127999>>, <<917505, 917505>>,
       <<917536, 917631>>, <<917760, 917999>> >>

InRanges(c, ranges) ==
    \E k \in 1..Len(ranges) : ranges[k][1] <= c /\ c <= ranges[k][2]

Maps(rule, c) == rule[1] <= c /\ c <= rule[2] /\ (c - rule[1]) % rule[3] = 0

\* the lower-case mapping of one character out of context: the capital I
\* with a dot above (U+0130) becomes i and a combining dot above
lowered(c) ==
    IF c < 128 THEN (IF 65 <= c /\ c <= 90 THEN <<c + 32>> ELSE <<c>>)
    ELSE IF c = 304 THEN <<105, 775>>
    ELSE IF \E k \in 1..Len(LowerRules) : Maps(LowerRules[k], c)
    THEN <<c + LowerRules[CHOOSE k \in 1..Len(LowerRules) :
                                Maps(LowerRules[k], c)][4]>>
    ELSE <<c>>

\* is the nearest character at or before position j that is not
\* case-ignorable a cased one
RECURSIVE casedBefore(_, _)
casedBefore(s, j) ==
    IF j < 1 THEN FALSE
    ELSE IF InRanges(s[j], CaseIgnorable) THEN casedBefore(s, j - 1)
    ELSE InRanges(s[j], Cased)

\* the same at or after position j
RECURSIVE casedAfter(_, _)
casedAfter(s, j) ==
    IF j > Len(s) THEN FALSE
    ELSE IF InRanges(s[j], CaseIgnorable) THEN casedAfter(s, j + 1)
    ELSE InRanges(s[j], Cased)

\* the condition Final_Sigma: the capital sigma at position i ends a word
finalSigma(s, i) == casedBefore(s, i - 1) /\ ~casedAfter(s, i + 1)

\* what toLowerCase makes of the character at position i of s: the capital
\* sigma (U+03A3) becomes the final sigma (U+03C2) at the end of a word
loweredAt(s, i) ==
    IF s[i] = 931 /\ finalSigma(s, i) THEN <<962>> ELSE lowered(s[i])

RECURSIVE toLowerCaseFrom(_, _)
toLowerCaseFrom(s, i) ==
    IF i > Len(s) THEN <<>> ELSE loweredAt(s, i) \o toLowerCaseFrom(s, i + 1)

\* String.prototype.toLowerCase
toLowerCase(s) == toLowerCaseFrom(s, 1)

\* WhiteSpace and LineTerminator of ECMAScript, which trim strips: tab, line
\* feed, vertical tab, form feed, carriage return, space, no-break space,
\* the space separators of Unicode, line and paragraph separator and the
\* byte order mark
WhiteSpace ==
    { 9, 10, 11, 12, 13, 32, 160, 5760, 8192, 8193, 8194, 8195, 8196, 8197,
      8198, 8199, 8200, 8201, 8202, 8232, 8233, 8239, 8287, 12288, 65279 }

RECURSIVE trimStart(_)
trimStart(s) ==
    IF Len(s) > 0 /\ Head(s) \in WhiteSpace THEN trimStart(Tail(s)) ELSE s

RECURSIVE trimEnd(_)
trimEnd(s) ==
    IF Len(s) > 0 /\ s[Len(s)] \in WhiteSpace
    THEN trimEnd(SubSeq(s, 1, Len(s) - 1)) ELSE s

trim(s) == trimEnd(trimStart(s))

\* does k start at position i of s
RECURSIVE startsAt(_, _, _, _)
startsAt(s, k, i, j) ==
    IF j > Len(k) THEN TRUE
    ELSE IF i + j - 1 > Len(s) THEN FALSE
    ELSE IF s[i + j - 1] # k[j] THEN FALSE
    ELSE startsAt(s, k, i, j + 1)

\* String.prototype.includes, scanning the start positions left to right
RECURSIVE includesFrom(_, _, _)
includesFrom(s, k, i) ==
    IF i + Len(k) - 1 > Len(s) THEN FALSE
    ELSE IF startsAt(s, k, i, 1) THEN TRUE
    ELSE includesFrom(s, k, i + 1)

includes(s, k) == includesFrom(s, k, 1)

\* ----------------------------------------------------- rate resolution

\* the mutant of C8: the 12.5% band runs one year too long
getVATRate_lateBand(date) ==
    IF ~date.valid THEN STANDARD_2030
    ELSE LET year == getFullYear(date)
         IN  IF year = 2025 THEN STANDARD_2025
             ELSE IF year >= 2026 /\ year <= 2030 THEN STANDARD_2026_2029
             ELSE STANDARD_2030

\* the year of the invalid date is NaN, which fails every comparison
getVATRate(date) ==
    IF ~date.valid THEN STANDARD_2030
    ELSE LET year == getFullYear(date)
         IN  IF year = 2025 THEN STANDARD_2025
             ELSE IF year >= 2026 /\ year <= 2029 THEN STANDARD_2026_2029
             ELSE STANDARD_2030

\* the mutant of C9: the description is matched as written
isBasicItem_caseSensitive(description) ==
    LET normalized == trim(description)
    IN  \E n \in 1..Len(BASIC_ITEMS_KEYWORDS) :
            includes(normalized, BASIC_ITEMS_KEYWORDS[n])

isBasicItem(description) ==
    LET normalized == trim(toLowerCase(description))
    IN  \E n \in 1..Len(BASIC_ITEMS_KEYWORDS) :
            includes(normalized, BASIC_ITEMS_KEYWORDS[n])

getApplicableVATRate(description, invoiceDate) ==
    IF isBasicItem(description) THEN BASIC_ITEMS ELSE getVATRate(invoiceDate)

\* ------------------------------------------------- calculateInvoiceVAT

\* item.isBasicItem as a condition: the field is optional
flagged(item) == "isBasicItem" \in DOMAIN item /\ item.isBasicItem

\* the mutant of C7: a line without the flag is rated by its description
applicableRate_inferred(item, standardRate) ==
    IF flagged(item) \/ isBasicItem(item.description)
    THEN BASIC_ITEMS ELSE standardRate

\* the mutant of C10: the flag of the line is not looked at
applicableRate_unflagged(item, standardRate) == standardRate

applicableRate(item, standardRate) ==
    IF flagged(item) THEN BASIC_ITEMS ELSE standardRate

\* quantity * unitPrice as the Number it is, whose value lineTotal is: a
\* product that is 0 is -0 when one of the factors is below 0
lineTotalNumber(item, lineTotal) ==
    IF lineTotal = 0
    THEN Binary64((item.quantity < 0) # (item.unitPrice < 0), <<>>, 0)
    ELSE FromInt(lineTotal)

\* the object a line item is mapped to: the item's own fields, then the
\* three computed ones
priced(item, lineTotal, lineVAT) ==
    [f \in DOMAIN item \cup {"lineTotal", "vat", "total"} |->
        CASE f = "lineTotal" -> lineTotal
          [] f = "vat" -> lineVAT
          [] f = "total" -> Plus64(lineTotalNumber(item, lineTotal), lineVAT)
          [] OTHER -> item[f]]

\* lineVAT = lineTotal * applicableRate
rated(item, lineTotal, rate) ==
    priced(item, lineTotal,
           Times64(lineTotalNumber(item, lineTotal), RateNumbers[rate]))

calculatedLineItem(item, standardRate) ==
    rated(item, item.quantity * item.unitPrice, applicableRate(item, standardRate))

\* the mutant of C6: the VAT sum collects the totals of the lines
accumulate_totals(acc, line) ==
    [subtotal |-> acc.subtotal + line.lineTotal,
     totalVAT |-> Plus64(acc.totalVAT, line.total),
     lineItems |-> Append(acc.lineItems, line)]

\* one round of the map callback: the two running sums and the mapped array
accumulate(acc, line) ==
    [subtotal |-> acc.subtotal + line.lineTotal,
     totalVAT |-> Plus64(acc.totalVAT, line.vat),
     lineItems |-> Append(acc.lineItems, line)]

RECURSIVE mapLineItems(_, _, _)
mapLineItems(items, standardRate, acc) ==
    IF items = <<>> THEN acc
    ELSE mapLineItems(Tail(items), standardRate,
            accumulate(acc, calculatedLineItem(Head(items), standardRate)))

\* the result object, from the sums and the lines the map has left
resultOf(invoice, vatRate, done) ==
    [invoiceNumber |-> invoice.invoiceNumber,
     invoiceDate |-> invoice.invoiceDate,
     subtotal |-> done.subtotal,
     vatRate |-> vatRate,
     vatAmount |-> done.totalVAT,
     totalAmount |-> Plus64(FromInt(done.subtotal), done.totalVAT),
     lineItems |-> done.lineItems]

\* let subtotal = 0, totalVAT = 0, and the map over the line items
summed(invoice, standardRate) ==
    mapLineItems(invoice.lineItems, standardRate,
                 [subtotal |-> 0, totalVAT |-> Zero64, lineItems |-> <<>>])

\* the rate of an invoice that reports 0 when all its lines are zero-rated
effectiveRate(standardRate, done) ==
    IF done.subtotal > 0 /\ done.totalVAT.m = <<>> THEN BASIC_ITEMS
    ELSE standardRate

\* the mutant of C11: an invoice whose lines are all zero-rated reports rate 0
calculateInvoiceVAT_effectiveRate(invoice) ==
    resultOf(invoice,
                effectiveRate(getVATRate(NewDate(invoice.invoiceDate)),
                              summed(invoice, getVATRate(NewDate(invoice.invoiceDate)))),
                summed(invoice, getVATRate(NewDate(invoice.invoiceDate))))

calculateInvoiceVAT(invoice) ==
    resultOf(invoice, getVATRate(NewDate(invoice.invoiceDate)),
                summed(invoice, getVATRate(NewDate(invoice.invoiceDate))))

\* ------------------------------------------------------------ VAT calls

\* most lines of an invoice
MaxLines == 2

\* largest quantity of a line
MaxQty == 2

\* longest generated description
MaxDescLen == 4

Laptop == Text(<<"L","a","p","t","o","p">>)

Rice50kg == Text(<<"R","i","c","e"," ","5","0","k","g">>)

Pen == Text(<<"P","e","n">>)

\* MILK written with the Kelvin sign (U+212A), which lower-cases to k
MilkKelvin == <<77, 73, 76, 8490>>

\* RICE written with the capital I with a dot above (U+0130), which
\* lower-cases to two characters
RiceDotted == <<82, 304, 67, 69>>

\* greek capitals, the second word ending in a sigma: the words for rice
\* and for broth
GreekRice == <<929, 933, 918, 921, 32, 918, 937, 924, 927, 931>>

ExampleDescriptions ==
    { Laptop, Rice50kg, Pen, MilkKelvin, RiceDotted, GreekRice,
      Text(<<"f","r","i","e","d"," ","r","i","c","e"," ","c","o","o","k","e","r">>),
      Text(<<"P","r","i","c","e"," ","l","i","s","t">>),
      Text(<<"C","O","O","K","I","N","G"," ","O","I","L"," ","5","L">>),
      Text(<<"c","o","o","k","i","n","g"," "," ","o","i","l">>),
      Text(<<" ","E","g","g","s"," ">>),
      Text(<<"P","r","i","n","t","e","r">>) }

Descriptions ==
    ExampleDescriptions \cup
    UNION { [1..n -> { CodePoint(c) : c \in {"r", "i", "c", "e", "R"} }] :
                n \in 0..MaxDescLen }

\* ISO date strings: the first and the last day of a year and a day inside,
\* and a string that is no date
DateStrings ==
    { [y |-> y, m |-> md[1], d |-> md[2]] :
        y \in Years, md \in { <<1, 1>>, <<6, 1>>, <<12, 31>> } }
    \cup { [y |-> 2025, m |-> 13, d |-> 1] }

InvoiceDates ==
    { [y |-> 2025, m |-> 6, d |-> 1], [y |-> 2026, m |-> 1, d |-> 1],
      [y |-> 2030, m |-> 1, d |-> 1], [y |-> 2025, m |-> 13, d |-> 1] }

Laptop1 == [description |-> Laptop, quantity |-> 1, unitPrice |-> 500000]

Rice2 ==
    [description |-> Rice50kg, quantity |-> 2, unitPrice |-> 50000,
     isBasicItem |-> TRUE]

\* the two lines of the documented invoice; a rice line with the flag off
\* and one without it, a laptop line with the flag on; pens at 3 naira, on
\* which the product with the rate is rounded (3 * 0.1 is
\* 0.30000000000000004)
LineItems ==
    { Laptop1, Rice2,
      [description |-> Rice50kg, quantity |-> 1, unitPrice |-> 50000,
       isBasicItem |-> FALSE],
      [description |-> Rice50kg, quantity |-> 1, unitPrice |-> 50000],
      [description |-> Laptop, quantity |-> 1, unitPrice |-> 500000,
       isBasicItem |-> TRUE] }
    \cup
    { [description |-> Pen, quantity |-> q, unitPrice |-> 3] : q \in 0..MaxQty }

Invoices ==
    { [invoiceNumber |-> "INV-001", invoiceDate |-> s,
       customerName |-> "Customer Ltd", lineItems |-> l] :
        s \in InvoiceDates,
        l \in UNION { [1..n -> LineItems] : n \in 0..MaxLines } }

VATCalls ==
    { [op |-> "getVATRate", date |-> <<NewDate(s)>>] : s \in DateStrings } \cup
    { [op |-> "getVATRate", date |-> <<>>] } \cup
    { [op |-> "getApplicableVATRate", description |-> d, date |-> <<NewDate(s)>>] :
        d \in Descriptions, s \in InvoiceDates } \cup
    { [op |-> "getApplicableVATRate", description |-> d, date |-> <<>>] :
        d \in ExampleDescriptions } \cup
    { [op |-> "calculateInvoiceVAT", invoice |-> i] : i \in Invoices }

\* a call that takes its date from the default parameter reads the clock;
\* date is the optional Date argument, <<>> when it is left out
ReadsClock(call) ==
    call.op \in {"getVATRate", "getApplicableVATRate"} /\ Len(call.date) = 0

DateOf(call) == IF Len(call.date) = 0 THEN now ELSE call.date[1]

InitVAT ==
    /\ tz \in TZOffsets
    /\ req \in VATCalls
    /\ now \in IF ReadsClock(req) THEN Clock
               ELSE { NewDate([y |-> 2026, m |-> 7, d |-> 1]) }
    /\ ret = Pending

GetVATRate ==
    /\ ret = Pending
    /\ req.op = "getVATRate"
    /\ ret' = Return(getVATRate(DateOf(req)))
    /\ UNCHANGED <<now, tz, req>>

GetApplicableVATRate ==
    /\ ret = Pending
    /\ req.op = "getApplicableVATRate"
    /\ ret' = Return(getApplicableVATRate(req.description, DateOf(req)))
    /\ UNCHANGED <<now, tz, req>>

CalculateInvoiceVAT ==
    /\ ret = Pending
    /\ req.op = "calculateInvoiceVAT"
    /\ ret' = Return(calculateInvoiceVAT(req.invoice))
    /\ UNCHANGED <<now, tz, req>>

NextVAT ==
    \/ GetVATRate
    \/ GetApplicableVATRate
    \/ CalculateInvoiceVAT

SpecVAT == InitVAT /\ [][NextVAT]_vars

\* =========================================================== validators
\* A partial input is a record that has some of the fields of the type.

has(object, field) == field \in DOMAIN object

\* !x of an optional string: undefined and "" are falsy
falsyString(object, field) == ~has(object, field) \/ object[field] = ""

\* !x of an optional number: undefined and 0 are falsy
falsyNumber(object, field) == ~has(object, field) \/ object[field] = 0

\* !x of an optional Number held as binary64: undefined, 0 and -0 are falsy
falsyNumber64(object, field) == ~has(object, field) \/ object[field].m = <<>>

\* the mutant of C14: the checks are chained, only the first failure is kept
validateClassificationInput_firstOnly(input) ==
    LET errors ==
            IF ~has(input, "turnover") THEN <<"Annual turnover is required">>
            ELSE IF input.turnover < 0 THEN <<"Annual turnover cannot be negative">>
            ELSE IF ~has(input, "fixedAssets") THEN <<"Fixed assets value is required">>
            ELSE IF input.fixedAssets < 0 THEN <<"Fixed assets value cannot be negative">>
            ELSE IF ~has(input, "isProfessionalServices")
                 THEN <<"Professional services flag is required">>
            ELSE <<>>
    IN  [valid |-> Len(errors) = 0, errors |-> errors]

validateClassificationInput(input) ==
    LET turnoverErrors ==
            IF ~has(input, "turnover") THEN <<"Annual turnover is required">>
            ELSE IF input.turnover < 0 THEN <<"Annual turnover cannot be negative">>
            ELSE <<>>
        assetsErrors ==
            IF ~has(input, "fixedAssets") THEN <<"Fixed assets value is required">>
            ELSE IF input.fixedAssets < 0 THEN <<"Fixed assets value cannot be negative">>
            ELSE <<>>
        flagErrors ==
            IF ~has(input, "isProfessionalServices")
            THEN <<"Professional services flag is required">>
            ELSE <<>>
        errors == turnoverErrors \o assetsErrors \o flagErrors
    IN  [valid |-> Len(errors) = 0, errors |-> errors]

\* the Number 0.01
tolerance == FromRatio(1, 100)

\* Math.abs(vatAmount - grossAmount * vatRate) > tolerance
exceedsTolerance(vatAmount, grossAmount, vatRate) ==
    Greater64(Abs64(Minus64(vatAmount, TimesRate(grossAmount, vatRate))),
              tolerance)

\* invoice.vatAmount || 0
vatAmountOr0(invoice) ==
    IF falsyNumber64(invoice, "vatAmount") THEN Zero64 ELSE invoice.vatAmount

validateVATInvoice(invoice) ==
    LET numberErrors ==
            IF falsyString(invoice, "invoiceNumber")
            THEN <<"Invoice number is required">> ELSE <<>>
        dateErrors ==
            IF ~has(invoice, "invoiceDate") THEN <<"Invoice date is required">>
            ELSE IF ~NewDate(invoice.invoiceDate).valid
                 THEN <<"Invalid invoice date format">>
            ELSE <<>>
        customerErrors ==
            IF falsyString(invoice, "customerName")
            THEN <<"Customer name is required">> ELSE <<>>
        grossErrors ==
            IF falsyNumber(invoice, "grossAmount") \/ invoice.grossAmount < 0
            THEN <<"Valid gross amount is required">> ELSE <<>>
        typeErrors ==
            IF falsyString(invoice, "invoiceType")
               \/ invoice.invoiceType \notin {"OUTPUT", "INPUT"}
            THEN <<"Invoice type must be OUTPUT or INPUT">> ELSE <<>>
        vatErrors ==
            IF ~falsyNumber(invoice, "grossAmount") /\ has(invoice, "vatRate")
            THEN IF exceedsTolerance(vatAmountOr0(invoice), invoice.grossAmount,
                                     invoice.vatRate)
                 THEN <<"VAT amount does not match gross amount x VAT rate">>
                 ELSE <<>>
            ELSE <<>>
        errors == numberErrors \o dateErrors \o customerErrors \o grossErrors
                    \o typeErrors \o vatErrors
    IN  [valid |-> Len(errors) = 0, errors |-> errors]

\* ------------------------------------------------------ validator calls

\* a VAT amount is drawn up to this many units of 0.005 naira away from
\* grossAmount * vatRate
MaxDiff == 3

\* an optional field: <<>> when it is left out, <<v>> when it is v
Optional(values) == { <<>> } \cup { <<v>> : v \in values }

\* the object with the fields that are not left out
Partial(fields) ==
    [f \in { g \in DOMAIN fields : Len(fields[g]) = 1 } |-> fields[f][1]]

ClassificationPartials ==
    { Partial([turnover |-> t, fixedAssets |-> a, isProfessionalServices |-> f]) :
        t \in Optional(Amounts(TURNOVER_THRESHOLD)),
        a \in Optional(Amounts(ASSETS_THRESHOLD)),
        f \in Optional(BOOLEAN) }

\* gross amounts in naira.  At 300 with the rate 0.1 the rounding of the
\* difference turns a VAT amount 0.01 off the product into a mismatch
\* (30.01 - 30 is 0.010000000000001563); at 400 it does not.
GrossAmounts == { -400, 0, 300, 400 }

VATRates == { BASIC_ITEMS, STANDARD_2025, STANDARD_2026_2029 }

\* the decimal amounts, in units of 1/RateScale naira, up to MaxDiff units
\* away from the product of a gross amount and a rate, or from 0
NearProducts ==
    { g * r + d : g \in GrossAmounts \cup {0}, r \in VATRates,
                  d \in (-MaxDiff)..MaxDiff }

\* the Number the decimal literal of each of these amounts denotes
Written == [k \in NearProducts |-> FromRatio(k, RateScale)]

\* the VAT amounts around the product of an optional gross amount and rate
VATAmountsNear(g, r) ==
    LET expected == IF Len(g) = 1 /\ Len(r) = 1 THEN g[1] * r[1] ELSE 0
    IN  { <<>> } \cup { <<Written[expected + d]>> : d \in (-MaxDiff)..MaxDiff }

InvoicePartials ==
    UNION {
        { Partial([invoiceNumber |-> n, invoiceDate |-> s, customerName |-> c,
                   grossAmount |-> g, vatRate |-> r, vatAmount |-> v,
                   invoiceType |-> t]) :
            n \in Optional({"", "INV-001"}),
            s \in Optional({ [y |-> 2025, m |-> 6, d |-> 1],
                             [y |-> 2025, m |-> 13, d |-> 1] }),
            c \in Optional({"Customer Ltd"}),
            t \in Optional({"OUTPUT", "INPUT", "SALE"}),
            v \in VATAmountsNear(g, r) } :
        g \in Optional(GrossAmounts), r \in Optional(VATRates) }

ValidateCalls ==
    { [op |-> "validateClassificationInput", partial |-> i] :
        i \in ClassificationPartials } \cup
    { [op |-> "validateVATInvoice", partial |-> i] : i \in InvoicePartials }

\* the validators read neither the clock nor the time zone
InitValidate ==
    /\ now = NewDate([y |-> 2026, m |-> 7, d |-> 1])
    /\ tz = 1
    /\ req \in ValidateCalls
    /\ ret = Pending

ValidateClassificationInput ==
    /\ ret = Pending
    /\ req.op = "validateClassificationInput"
    /\ ret' = Return(validateClassificationInput(req.partial))
    /\ UNCHANGED <<now, tz, req>>

ValidateVATInvoice ==
    /\ ret = Pending
    /\ req.op = "validateVATInvoice"
    /\ ret' = Return(validateVATInvoice(req.partial))
    /\ UNCHANGED <<now, tz, req>>

NextValidate ==
    \/ ValidateClassificationInput
    \/ ValidateVATInvoice

SpecValidate == InitValidate /\ [][NextValidate]_vars

\* ========================================================== VAT position

\* The VAT amounts of the invoices handed to the position engine, and with
\* them the totals, the positions and the carry-forward accumulator, are
\* Numbers.

\* the Number a decimal of so many thousandths of a naira denotes
Amount(thousandths) == FromRatio(thousandths, 1000)

\* Math.max(a, b); of 0 and -0 it is 0
max(a, b) ==
    IF Greater64(b, a) THEN b
    ELSE IF Greater64(a, b) THEN a
    ELSE Binary64(a.neg /\ b.neg, a.m, a.e)

RECURSIVE BigToInt(_)
BigToInt(a) == IF a = <<>> THEN 0 ELSE a[1] + Base * BigToInt(Tail(a))

\* the whole kobo in an amount of n * 2^e kobo
wholeKobo(n, e) == IF e >= 0 THEN BigShiftLeft(n, e) ELSE BigShiftRight(n, -e)

\* an amount of n * 2^e kobo is half a kobo or more above its whole kobo
halfKoboAbove(n, e) == e < 0 /\ HalfCmp(n, -e) >= 0

\* the Number that the decimal of so many kobo and a half denotes
halfKoboNumber(whole) ==
    Quotient64(FALSE,
               BigDivSmall(BigShiftLeft(BigAdd(BigMulSmall(whole, 2), <<1>>),
                                        QuotientBits), 200))

\* the kobo shown for an amount of magnitude x with so many whole kobo in
\* it: the decimal that is rounded is the shortest one that denotes the
\* Number, so an amount is rounded up from half a kobo on and also when it
\* is the Number that a decimal of whole kobo and a half denotes
roundedKobo(x, whole) ==
    IF halfKoboAbove(BigMulSmall(x.m, 100), x.e) \/ x = halfKoboNumber(whole)
    THEN BigAdd(whole, <<1>>) ELSE whole

\* the digits of an amount of so many kobo: its naira and its two decimals
digits(negative, shown) ==
    [negative |-> negative, naira |-> BigToInt(shown.q), kobo |-> shown.r]

\* Number.prototype.toLocaleString with two fraction digits: the sign, the
\* naira and the kobo of the text, the amount rounded to the kobo, half a
\* kobo away from zero; an amount below 0 that is rounded to 0 keeps its
\* sign
formatCurrency(amount) ==
    digits(amount.neg,
           BigDivSmall(roundedKobo(Abs64(amount),
                                   wholeKobo(BigMulSmall(amount.m, 100), amount.e)),
                       100))

\* the date of the local calendar a valid Date falls on
LocalDate(date) ==
    LET day == (date.t + tz) \div 24
        y == getFullYear(date)
        m == CHOOSE k \in 1..12 :
                /\ DaysBeforeYear(y) + DaysBeforeMonth(y, k) <= day
                /\ day < DaysBeforeYear(y) + DaysBeforeMonth(y, k) + DaysInMonth(y, k)
    IN  [y |-> y, m |-> m, d |-> day - DaysBeforeYear(y) - DaysBeforeMonth(y, m) + 1]

\* toLocaleDateString: year, short month and day of the local calendar
formatDate(dateString) ==
    LET date == NewDate(dateString)
    IN  IF date.valid THEN LocalDate(date) ELSE [invalid |-> TRUE]

\* the mutant of C15: the last day of the period is left out
inPeriod_exclusiveEnd(inv, periodStart, periodEnd) ==
    LET invDate == IF has(inv, "invoiceDate") THEN NewDate(inv.invoiceDate)
                   ELSE [valid |-> FALSE, t |-> 0]
        start == NewDate(periodStart)
        end == NewDate(periodEnd)
    IN  /\ invDate.valid /\ start.valid /\ end.valid
        /\ invDate.t >= start.t
        /\ invDate.t < end.t

\* invDate >= start && invDate <= end; a comparison with the invalid date
\* is false, and new Date(undefined), of an object without invoiceDate, is
\* the invalid date
inPeriod(inv, periodStart, periodEnd) ==
    LET invDate == IF has(inv, "invoiceDate") THEN NewDate(inv.invoiceDate)
                   ELSE [valid |-> FALSE, t |-> 0]
        start == NewDate(periodStart)
        end == NewDate(periodEnd)
    IN  /\ invDate.valid /\ start.valid /\ end.valid
        /\ invDate.t >= start.t
        /\ invDate.t <= end.t

\* the mutant of C16: the type of the invoice is not looked at
ofType_any(invoices, type) == invoices

\* invoices.filter(inv => inv.invoiceType === type)
ofType(invoices, type) ==
    LET matches(inv) == has(inv, "invoiceType") /\ inv.invoiceType = type
    IN  SelectSeq(invoices, matches)

\* invoices.reduce((sum, inv) => sum + Number(inv.vatAmount), 0)
RECURSIVE sumVAT(_)
sumVAT(invoices) ==
    IF invoices = <<>> THEN Zero64
    ELSE Plus64(sumVAT(SubSeq(invoices, 1, Len(invoices) - 1)),
                invoices[Len(invoices)].vatAmount)

\* the mutant of C17: the difference is not clamped
netPayable_unclamped(outputVAT, inputVAT) == Minus64(outputVAT, inputVAT)

\* Math.max(0, outputVAT - inputVAT)
netPayable(outputVAT, inputVAT) == max(Zero64, Minus64(outputVAT, inputVAT))

\* the mutant of C18: credit is recognised only without any output VAT
credit_withoutOutput(outputVAT, inputVAT) ==
    IF outputVAT.m = <<>> THEN inputVAT ELSE Zero64

\* Math.max(0, inputVAT - outputVAT)
credit(outputVAT, inputVAT) == max(Zero64, Minus64(inputVAT, outputVAT))

\* the mutant of C22: without the balanced branch
outcome_noBalanced(netVATPayable, excessCredit) ==
    IF Positive64(netVATPayable)
    THEN << [text |-> "Net VAT Payable", amount |-> formatCurrency(netVATPayable)],
            [text |-> "Action: Remit to FIRS by 21st of following month"] >>
    ELSE << [text |-> "Excess Credit", amount |-> formatCurrency(excessCredit)],
            [text |-> "Action: Carry forward to next period"] >>

\* the closing lines of the summary
outcome(netVATPayable, excessCredit) ==
    IF Positive64(netVATPayable)
    THEN << [text |-> "Net VAT Payable", amount |-> formatCurrency(netVATPayable)],
            [text |-> "Action: Remit to FIRS by 21st of following month"] >>
    ELSE IF Positive64(excessCredit)
    THEN << [text |-> "Excess Credit", amount |-> formatCurrency(excessCredit)],
            [text |-> "Action: Carry forward to next period"] >>
    ELSE << [text |-> "Net VAT Position: 0.00 (balanced)"] >>

\* the position from its totals and counts
VATPosition(periodStart, periodEnd, outputVAT, inputVAT, netVATPayable, excessCredit, outputCount, inputCount, totalCount) ==
    [period |-> [from |-> formatDate(periodStart), to |-> formatDate(periodEnd)],
     periodStart |-> periodStart,
     periodEnd |-> periodEnd,
     outputVAT |-> outputVAT,
     inputVAT |-> inputVAT,
     netVATPayable |-> netVATPayable,
     excessCredit |-> excessCredit,
     invoiceCount |-> [output |-> outputCount, input |-> inputCount,
                       total |-> totalCount],
     summary |->
        << [text |-> "VAT Position for", from |-> formatDate(periodStart),
            to |-> formatDate(periodEnd)],
           [text |-> ""],
           [text |-> "Output VAT (Sales)", amount |-> formatCurrency(outputVAT)],
           [text |-> "From sales invoices", count |-> outputCount],
           [text |-> ""],
           [text |-> "Input VAT (Purchases)", amount |-> formatCurrency(inputVAT)],
           [text |-> "From purchase invoices", count |-> inputCount],
           [text |-> ""] >> \o outcome(netVATPayable, excessCredit)]

computeVATPosition(invoices, periodStart, periodEnd) ==
    LET within(inv) == inPeriod(inv, periodStart, periodEnd)
        periodInvoices == SelectSeq(invoices, within)
        outputInvoices == ofType(periodInvoices, "OUTPUT")
        outputVAT == sumVAT(outputInvoices)
        inputInvoices == ofType(periodInvoices, "INPUT")
        inputVAT == sumVAT(inputInvoices)
    IN  VATPosition(periodStart, periodEnd, outputVAT, inputVAT,
                    netPayable(outputVAT, inputVAT), credit(outputVAT, inputVAT),
                    Len(outputInvoices), Len(inputInvoices), Len(periodInvoices))

\* ------------------------------------------- computeCumulativeVATPosition
\* The loop over the periods is taken one iteration at a time.  While the
\* call runs, ret holds its frame: the positions pushed so far and the
\* carry-forward accumulator.

Frame(positions, carryForwardCredit) ==
    [kind |-> "loop", positions |-> positions,
     carryForwardCredit |-> carryForwardCredit]

\* the lines the applied credit adds to the summary
creditNote(creditUsed) ==
    << [text |-> ""],
       [text |-> "Carry-forward credit applied", amount |-> formatCurrency(creditUsed)] >>

\* the position with the payable that is left, the note appended to its
\* summary
adjusted(position, adjustedPayable, creditUsed) ==
    [position EXCEPT !.netVATPayable = adjustedPayable,
                     !.summary = @ \o creditNote(creditUsed)]

\* creditUsed = position.netVATPayable - adjustedPayable, taken off the
\* accumulator
used(position, carryForwardCredit, adjustedPayable, creditUsed) ==
    [position |-> adjusted(position, adjustedPayable, creditUsed),
     carryForwardCredit |-> Minus64(carryForwardCredit, creditUsed)]

\* adjustedPayable = Math.max(0, position.netVATPayable - carryForwardCredit)
reduced(position, carryForwardCredit, adjustedPayable) ==
    used(position, carryForwardCredit, adjustedPayable,
         Minus64(position.netVATPayable, adjustedPayable))

\* the body of if (carryForwardCredit > 0): the position and the accumulator
\* after it
applyCarryForward(position, carryForwardCredit) ==
    IF Positive64(carryForwardCredit)
    THEN reduced(position, carryForwardCredit,
                 max(Zero64, Minus64(position.netVATPayable, carryForwardCredit)))
    ELSE [position |-> position, carryForwardCredit |-> carryForwardCredit]

\* carryForwardCredit += position.excessCredit; positions.push(position)
pushed(frame, applied) ==
    Frame(Append(frame.positions, applied.position),
          Plus64(applied.carryForwardCredit, applied.position.excessCredit))

\* one iteration of for (const period of periods)
iteration(frame, period) ==
    pushed(frame,
           applyCarryForward(computeVATPosition(period.invoices, period.start,
                                                period.end),
                             frame.carryForwardCredit))

\* ------------------------------------------------------- position calls

\* invoices handed to computeVATPosition in one call
MaxInvoices == 2

\* periods handed to computeCumulativeVATPosition in one call
MaxPeriods == 3

June == [start |-> [y |-> 2025, m |-> 6, d |-> 1], end |-> [y |-> 2025, m |-> 6, d |-> 30]]

\* the last day of June alone
JuneEnd == [start |-> June.end, end |-> June.end]

\* the days around the two ends of June, and a string that is no date
PositionDates ==
    { [y |-> 2025, m |-> 5, d |-> 31], June.start, June.end,
      [y |-> 2025, m |-> 7, d |-> 1], [y |-> 2025, m |-> 13, d |-> 1] }

\* VAT amounts with kobo: 55837.79 and 21548.51 naira, whose difference and
\* sum are rounded
VATAmounts == { Amount(55837790), Amount(21548510) }

PositionInvoices ==
    [invoiceDate : PositionDates, invoiceType : {"OUTPUT", "INPUT"},
     vatAmount : VATAmounts]

SeqsUpTo(set, n) == UNION { [1..k -> set] : k \in 0..n }

\* the k-th month from June 2025 on
Month(k) ==
    [start |-> [y |-> 2025, m |-> 5 + k, d |-> 1],
     end |-> [y |-> 2025, m |-> 5 + k, d |-> DaysInMonth(2025, 5 + k)]]

\* the ledger of a month: at most one sale and one purchase, dated the 15th
Ledger(k, outputVAT, inputVAT) ==
    LET invoice(type, amount) ==
            IF amount = 0 THEN <<>>
            ELSE << [invoiceDate |-> [y |-> 2025, m |-> 5 + k, d |-> 15],
                     invoiceType |-> type, vatAmount |-> Amount(amount)] >>
    IN  [invoices |-> invoice("OUTPUT", outputVAT) \o invoice("INPUT", inputVAT),
         start |-> Month(k).start, end |-> Month(k).end]

\* the output and input VAT of a month, in thousandths of a naira:
\* nothing, credit of 1000, 1500 payable, balanced, credit of 0.10, 1000.10
\* payable
LedgerTotals ==
    { <<0, 0>>, <<0, 1000000>>, <<1500000, 0>>, <<1000000, 1000000>>,
      <<0, 100>>, <<1000100, 0>> }

PeriodLists ==
    { [k \in 1..n |-> Ledger(k, totals[k][1], totals[k][2])] :
        n \in 0..MaxPeriods,
        totals \in [1..MaxPeriods -> LedgerTotals] }

\* the calls of computeCumulativeVATPosition
CumulativeCalls ==
    { [op |-> "computeCumulativeVATPosition", periods |-> periods] :
        periods \in PeriodLists }

PositionCalls ==
    { [op |-> "computeVATPosition", invoices |-> invoices,
       periodStart |-> period.start, periodEnd |-> period.end] :
        invoices \in SeqsUpTo(PositionInvoices, MaxInvoices),
        period \in {June, JuneEnd} } \cup
    CumulativeCalls

InitPosition ==
    /\ now = NewDate([y |-> 2026, m |-> 7, d |-> 1])
    /\ tz \in TZOffsets
    /\ req \in PositionCalls
    /\ ret = Pending

ComputeVATPosition ==
    /\ ret = Pending
    /\ req.op = "computeVATPosition"
    /\ ret' = Return(computeVATPosition(req.invoices, req.periodStart, req.periodEnd))
    /\ UNCHANGED <<now, tz, req>>

\* const positions = []; let carryForwardCredit = 0
CumulativeEnter ==
    /\ ret = Pending
    /\ req.op = "computeCumulativeVATPosition"
    /\ ret' = Frame(<<>>, Zero64)
    /\ UNCHANGED <<now, tz, req>>

CumulativeIterate ==
    /\ ret.kind = "loop"
    /\ Len(ret.positions) < Len(req.periods)
    /\ ret' = iteration(ret, req.periods[Len(ret.positions) + 1])
    /\ UNCHANGED <<now, tz, req>>

\* return positions
CumulativeReturn ==
    /\ ret.kind = "loop"
    /\ Len(ret.positions) = Len(req.periods)
    /\ ret' = Return(ret.positions)
    /\ UNCHANGED <<now, tz, req>>

NextPosition ==
    \/ ComputeVATPosition
    \/ CumulativeEnter
    \/ CumulativeIterate
    \/ CumulativeReturn

SpecPosition == InitPosition /\ [][NextPosition]_vars

\* computeCumulativeVATPosition alone, one iteration of its loop a step
InitCumulative ==
    /\ now = NewDate([y |-> 2026, m |-> 7, d |-> 1])
    /\ tz \in TZOffsets
    /\ req \in CumulativeCalls
    /\ ret = Pending

NextCumulative ==
    \/ CumulativeEnter
    \/ CumulativeIterate
    \/ CumulativeReturn

SpecCumulative == InitCumulative /\ [][NextCumulative]_vars

\* ============================================================ VAT routes
\* POST /api/tax/vat/invoices and POST /api/tax/vat/compute, each handler
\* taken from one await to the next, the handlers of a session running
\* side by side.  req is the session: its requests, each with what the
\* collaborators answer for it (the signed-in user, the user's role in the
\* organization, a failure of a query).  ret is the server: the tables
\* vat_invoices, tax_computations and tax_periods, and for each request the
\* await its handler is at with the locals it holds, or its response.

Response(status, body) == [status |-> status, body |-> body]

Failure(status, error) == Response(status, [success |-> FALSE, error |-> error])

Serving(tables, handlers) ==
    [kind |-> "serving", vat_invoices |-> tables.vat_invoices,
     tax_computations |-> tables.tax_computations,
     tax_periods |-> tables.tax_periods, handlers |-> handlers]

\* !userOrg || !["OWNER", "ADMIN", "ACCOUNTANT"].includes(userOrg.role);
\* role is <<>> when user_organizations has no row
forbidden(role) ==
    Len(role) = 0 \/ role[1] \notin {"OWNER", "ADMIN", "ACCOUNTANT"}

\* the object handed to validateVATInvoice
domainInvoice(body, calculation) ==
    [f \in {"invoiceNumber", "invoiceDate", "customerName", "grossAmount",
            "vatRate", "vatAmount", "totalAmount", "invoiceType", "lineItems"}
           \cup (DOMAIN body \cap {"customerTIN"}) |->
        CASE f = "grossAmount" -> calculation.subtotal
          [] f = "vatRate" -> calculation.vatRate
          [] f = "vatAmount" -> calculation.vatAmount
          [] f = "totalAmount" -> calculation.totalAmount
          [] f = "lineItems" -> calculation.lineItems
          [] OTHER -> body[f]]

\* the row handed to insert, with the id the table gives it; customer_tin
\* is customerTIN || null, <<>> being null
invoiceData(body, calculation, id) ==
    [id |-> id,
     organization_id |-> body.organizationId,
     invoice_number |-> body.invoiceNumber,
     invoice_date |-> body.invoiceDate,
     customer_name |-> body.customerName,
     customer_tin |-> IF falsyString(body, "customerTIN") THEN <<>>
                      ELSE <<body.customerTIN>>,
     gross_amount |-> calculation.subtotal,
     vat_rate |-> calculation.vatRate,
     vat_amount |-> calculation.vatAmount,
     total_amount |-> calculation.totalAmount,
     invoice_type |-> body.invoiceType,
     line_items |-> calculation.lineItems]

\* calculateInvoiceVAT({invoiceNumber, invoiceDate, customerName,
\* lineItems: lineItems || []})
calculated(body) ==
    calculateInvoiceVAT(
        [invoiceNumber |-> body.invoiceNumber,
         invoiceDate |-> body.invoiceDate,
         customerName |-> body.customerName,
         lineItems |-> IF has(body, "lineItems") THEN body.lineItems ELSE <<>>])

\* a <= b of two values of a date column
lte(a, b) ==
    \/ a.y < b.y
    \/ a.y = b.y /\ a.m < b.m
    \/ a.y = b.y /\ a.m = b.m /\ a.d <= b.d

\* from("vat_invoices").select("*").eq(...).gte(...).lte(...): the rows as
\* the table holds them, under the names of its columns
fetchInvoices(vat_invoices, organizationId, periodStart, periodEnd) ==
    LET matches(row) ==
            /\ row.organization_id = organizationId
            /\ lte(periodStart, row.invoice_date)
            /\ lte(row.invoice_date, periodEnd)
    IN  SelectSeq(vat_invoices, matches)

\* the row handed to the insert into tax_computations, with the id the
\* table gives it; <<>> is a taxPeriodId the body does not have
computationData(body, position, user, id) ==
    [id |-> id,
     organization_id |-> body.organizationId,
     tax_period_id |-> IF has(body, "taxPeriodId")
                       THEN <<body.taxPeriodId>> ELSE <<>>,
     tax_type |-> "VAT",
     computation_data |-> [position |-> position,
                           invoiceCount |-> position.invoiceCount,
                           periodStart |-> body.periodStart,
                           periodEnd |-> body.periodEnd],
     computed_amount |-> position.netVATPayable,
     computed_by |-> user]

\* {success: true, position, computation: computation || null}, <<>> being
\* null
computed(position, computation) ==
    Response(200, [success |-> TRUE, position |-> position,
                   computation |-> computation])

\* ----------------------------------------------------------- sessions

\* invoices posted in one session next to the request for the position
MaxPosts == 2

Rice1 ==
    [description |-> Rice50kg, quantity |-> 1, unitPrice |-> 50000,
     isBasicItem |-> TRUE]

GoodBody ==
    [organizationId |-> "org-1", invoiceNumber |-> "INV-001",
     invoiceDate |-> [y |-> 2025, m |-> 6, d |-> 1],
     customerName |-> "Customer Ltd", invoiceType |-> "OUTPUT",
     lineItems |-> <<Laptop1>>]

\* a sale or a purchase of one standard-rated line, dated in June or in July
LaptopBodies ==
    { [GoodBody EXCEPT !.invoiceDate = s, !.invoiceType = t] :
        s \in { [y |-> 2025, m |-> 6, d |-> 1], [y |-> 2025, m |-> 7, d |-> 1] },
        t \in { "OUTPUT", "INPUT" } }

\* the bodies of a signed-in accountant: the sales and purchases of a
\* laptop; the documented invoice of a laptop and a bag of rice; an invoice
\* of 3 naira; an invoice without lineItems
InvoiceBodies ==
    LaptopBodies
    \cup
    { [GoodBody EXCEPT !.lineItems = <<Laptop1, Rice1>>],
      [GoodBody EXCEPT !.lineItems =
          <<[description |-> Pen, quantity |-> 1, unitPrice |-> 3]>>],
      [f \in DOMAIN GoodBody \ {"lineItems"} |-> GoodBody[f]] }

InvoiceRequest(user, role, body, insertError) ==
    [route |-> "POST /api/tax/vat/invoices", user |-> user, role |-> role,
     jsonError |-> FALSE, body |-> body, insertError |-> insertError]

\* the request with a body that is no JSON
Unparseable(request) == [request EXCEPT !.jsonError = TRUE]

WithTIN(body, customerTIN) ==
    [f \in DOMAIN body \cup {"customerTIN"} |->
        IF f = "customerTIN" THEN customerTIN ELSE body[f]]

InvoiceRequests ==
    { InvoiceRequest(<<"user-1">>, <<"ACCOUNTANT">>, b, <<>>) : b \in InvoiceBodies }
    \cup
    { InvoiceRequest(<<>>, <<>>, GoodBody, <<>>),
      InvoiceRequest(<<"user-1">>, <<"VIEWER">>, GoodBody, <<>>),
      InvoiceRequest(<<"user-1">>, <<"OWNER">>,
                     [GoodBody EXCEPT !.invoiceNumber = ""], <<>>),
      InvoiceRequest(<<"user-1">>, <<"OWNER">>,
                     [GoodBody EXCEPT !.invoiceType = "SALE"], <<>>),
      InvoiceRequest(<<"user-1">>, <<"ADMIN">>, GoodBody, <<"23505">>),
      InvoiceRequest(<<"user-1">>, <<"ADMIN">>, GoodBody, <<"08006">>),
      InvoiceRequest(<<"user-1">>, <<"ADMIN">>, WithTIN(GoodBody, ""), <<>>),
      InvoiceRequest(<<"user-1">>, <<"ADMIN">>,
                     WithTIN(GoodBody, "12345678-0001"), <<>>),
      Unparseable(InvoiceRequest(<<"user-1">>, <<"ADMIN">>, GoodBody, <<>>)) }

\* the queries of the handler that can fail: the select of the invoices,
\* the insert of the computation, the update of the period
ComputeRequest(user, role, body, failing) ==
    [route |-> "POST /api/tax/vat/compute", user |-> user, role |-> role,
     jsonError |-> FALSE, body |-> body,
     fetchError |-> "select" \in failing,
     insertError |-> "insert" \in failing,
     updateError |-> "update" \in failing]

JuneBody ==
    [organizationId |-> "org-1", periodStart |-> June.start,
     periodEnd |-> June.end]

WithPeriod(body, taxPeriodId) ==
    [f \in DOMAIN body \cup {"taxPeriodId"} |->
        IF f = "taxPeriodId" THEN taxPeriodId ELSE body[f]]

ComputeRequests ==
    { ComputeRequest(<<"user-1">>, <<"ACCOUNTANT">>, JuneBody, {}),
      ComputeRequest(<<"user-1">>, <<"OWNER">>, WithPeriod(JuneBody, "2025-06"), {}),
      ComputeRequest(<<"user-1">>, <<"OWNER">>, WithPeriod(JuneBody, ""), {}),
      ComputeRequest(<<"user-1">>, <<"OWNER">>, WithPeriod(JuneBody, "2025-07"), {}),
      ComputeRequest(<<"user-1">>, <<"OWNER">>, JuneBody, {"select"}),
      ComputeRequest(<<"user-1">>, <<"OWNER">>, WithPeriod(JuneBody, "2025-06"),
                     {"insert"}),
      ComputeRequest(<<"user-1">>, <<"OWNER">>, WithPeriod(JuneBody, "2025-06"),
                     {"update"}),
      ComputeRequest(<<>>, <<>>, JuneBody, {}),
      ComputeRequest(<<"user-1">>, <<"VIEWER">>, JuneBody, {}),
      Unparseable(ComputeRequest(<<"user-1">>, <<"OWNER">>, JuneBody, {})),
      ComputeRequest(<<"user-1">>, <<"OWNER">>,
                     [organizationId |-> "org-1", periodStart |-> June.start], {}) }

\* the invoices of a session: one request of any kind, or up to MaxPosts
\* sales and purchases of the accountant
Posts ==
    { <<r>> : r \in InvoiceRequests }
    \cup
    SeqsUpTo({ InvoiceRequest(<<"user-1">>, <<"ACCOUNTANT">>, b, <<>>) :
                    b \in LaptopBodies }, MaxPosts)

\* the invoices and a request for the position of June
Sessions ==
    { [op |-> "session", requests |-> posts \o last] :
        posts \in Posts,
        last \in { <<>> } \cup { <<c>> : c \in ComputeRequests } }

\* the tables before the session: no invoice, no computation, the period of
\* June open
EmptyTables ==
    [vat_invoices |-> <<>>, tax_computations |-> <<>>,
     tax_periods |-> [id \in {"2025-06"} |-> "OPEN"]]

\* a handler at an await
Awaiting(step) == [at |-> step]

InitVATRoutes ==
    /\ now = NewDate([y |-> 2026, m |-> 7, d |-> 1])
    /\ tz \in TZOffsets
    /\ req \in Sessions
    /\ ret = Serving(EmptyTables,
                     [k \in 1..Len(req.requests) |-> Awaiting("createClient")])

\* ---------------------------------------------------------------- steps

\* the handler of the k-th request is at the await
Running(k, route, step) ==
    /\ ret.kind = "serving"
    /\ req.requests[k].route = route
    /\ ret.handlers[k].at = step

\* the handler of the k-th request goes on to its next await
Moved(k, frame) == ret' = [ret EXCEPT !.handlers[k] = frame]

\* the handler of the k-th request returns the response
Answered(k, response) ==
    ret' = [ret EXCEPT !.handlers[k] = [at |-> "responded", response |-> response]]

\* createClient() of either route
CreateClient(k, route) ==
    /\ Running(k, route, "createClient")
    /\ Moved(k, Awaiting("getUser"))
    /\ UNCHANGED <<now, tz, req>>

\* supabase.auth.getUser() of either route
GetUser(k, route) ==
    /\ Running(k, route, "getUser")
    /\ IF Len(req.requests[k].user) = 0
       THEN Answered(k, Failure(401, "Unauthorized"))
       ELSE Moved(k, Awaiting("json"))
    /\ UNCHANGED <<now, tz, req>>

\* request.json(), which throws into the catch around the handler when the
\* body is no JSON, and the required fields of the route
Json(k, route, missing) ==
    /\ Running(k, route, "json")
    /\ IF req.requests[k].jsonError
       THEN Answered(k, Failure(500, "Internal server error"))
       ELSE IF missing
       THEN Answered(k, Failure(400, "Missing required fields"))
       ELSE Moved(k, Awaiting("role"))
    /\ UNCHANGED <<now, tz, req>>

InvoicesCreateClient ==
    \E k \in 1..Len(req.requests) : CreateClient(k, "POST /api/tax/vat/invoices")

InvoicesGetUser ==
    \E k \in 1..Len(req.requests) : GetUser(k, "POST /api/tax/vat/invoices")

InvoicesJson ==
    \E k \in 1..Len(req.requests) :
        Json(k, "POST /api/tax/vat/invoices",
             \/ falsyString(req.requests[k].body, "organizationId")
             \/ falsyString(req.requests[k].body, "invoiceNumber")
             \/ ~has(req.requests[k].body, "invoiceDate")
             \/ falsyString(req.requests[k].body, "customerName")
             \/ falsyString(req.requests[k].body, "invoiceType"))

\* the role of the user, then calculateInvoiceVAT and validateVATInvoice
InvoicesRole ==
    \E k \in 1..Len(req.requests) :
        /\ Running(k, "POST /api/tax/vat/invoices", "role")
        /\ LET body == req.requests[k].body
               calculation == calculated(body)
               validation == validateVATInvoice(domainInvoice(body, calculation))
           IN  IF forbidden(req.requests[k].role)
               THEN Answered(k, Failure(403, "Forbidden"))
               ELSE IF ~validation.valid
               THEN Answered(k, Response(400, [success |-> FALSE,
                                               error |-> "Validation failed",
                                               errors |-> validation.errors]))
               ELSE Moved(k, [at |-> "insert", calculation |-> calculation])
        /\ UNCHANGED <<now, tz, req>>

\* the insert into vat_invoices
InvoicesInsert ==
    \E k \in 1..Len(req.requests) :
        /\ Running(k, "POST /api/tax/vat/invoices", "insert")
        /\ LET insertError == req.requests[k].insertError
               calculation == ret.handlers[k].calculation
               invoice == invoiceData(req.requests[k].body, calculation,
                                      Len(ret.vat_invoices) + 1)
           IN  IF Len(insertError) = 1
               THEN IF insertError[1] = "23505"
                    THEN Answered(k, Failure(409, "Invoice number already exists"))
                    ELSE Answered(k, Failure(500, "Failed to create invoice"))
               ELSE ret' = [ret EXCEPT
                        !.vat_invoices = Append(@, invoice),
                        !.handlers[k] =
                            [at |-> "responded",
                             response |-> Response(201, [success |-> TRUE,
                                                         invoice |-> invoice,
                                                         calculation |-> calculation])]]
        /\ UNCHANGED <<now, tz, req>>

ComputeCreateClient ==
    \E k \in 1..Len(req.requests) : CreateClient(k, "POST /api/tax/vat/compute")

ComputeGetUser ==
    \E k \in 1..Len(req.requests) : GetUser(k, "POST /api/tax/vat/compute")

ComputeJson ==
    \E k \in 1..Len(req.requests) :
        Json(k, "POST /api/tax/vat/compute",
             \/ falsyString(req.requests[k].body, "organizationId")
             \/ ~has(req.requests[k].body, "periodStart")
             \/ ~has(req.requests[k].body, "periodEnd"))

\* the role of the user
ComputeRole ==
    \E k \in 1..Len(req.requests) :
        /\ Running(k, "POST /api/tax/vat/compute", "role")
        /\ IF forbidden(req.requests[k].role)
           THEN Answered(k, Failure(403, "Forbidden"))
           ELSE Moved(k, Awaiting("select"))
        /\ UNCHANGED <<now, tz, req>>

\* the select of the invoices of the period, then computeVATPosition
ComputeSelect ==
    \E k \in 1..Len(req.requests) :
        /\ Running(k, "POST /api/tax/vat/compute", "select")
        /\ LET body == req.requests[k].body
               invoices == fetchInvoices(ret.vat_invoices, body.organizationId,
                                         body.periodStart, body.periodEnd)
           IN  IF req.requests[k].fetchError
               THEN Answered(k, Failure(500, "Failed to fetch invoices"))
               ELSE Moved(k, [at |-> "insert",
                              position |-> computeVATPosition(invoices,
                                              body.periodStart, body.periodEnd)])
        /\ UNCHANGED <<now, tz, req>>

\* the insert into tax_computations, whose failure is not fatal; without a
\* taxPeriodId the response follows
ComputeInsert ==
    \E k \in 1..Len(req.requests) :
        /\ Running(k, "POST /api/tax/vat/compute", "insert")
        /\ LET body == req.requests[k].body
               position == ret.handlers[k].position
               row == computationData(body, position, req.requests[k].user[1],
                                      Len(ret.tax_computations) + 1)
               computation == IF req.requests[k].insertError THEN <<>> ELSE <<row>>
           IN  ret' = [ret EXCEPT
                    !.tax_computations = @ \o computation,
                    !.handlers[k] =
                        IF falsyString(body, "taxPeriodId")
                        THEN [at |-> "responded",
                              response |-> computed(position, computation)]
                        ELSE [at |-> "update", position |-> position,
                              computation |-> computation]]
        /\ UNCHANGED <<now, tz, req>>

\* the update of tax_periods, whose outcome the handler does not look at,
\* and the response
ComputeUpdate ==
    \E k \in 1..Len(req.requests) :
        /\ Running(k, "POST /api/tax/vat/compute", "update")
        /\ LET taxPeriodId == req.requests[k].body.taxPeriodId
               updated == ~req.requests[k].updateError
                          /\ taxPeriodId \in DOMAIN ret.tax_periods
           IN  ret' = [ret EXCEPT
                    !.tax_periods = IF updated
                                    THEN [@ EXCEPT ![taxPeriodId] = "COMPUTED"]
                                    ELSE @,
                    !.handlers[k] =
                        [at |-> "responded",
                         response |-> computed(ret.handlers[k].position,
                                               ret.handlers[k].computation)]]
        /\ UNCHANGED <<now, tz, req>>

NextVATRoutes ==
    \/ InvoicesCreateClient
    \/ InvoicesGetUser
    \/ InvoicesJson
    \/ InvoicesRole
    \/ InvoicesInsert
    \/ ComputeCreateClient
    \/ ComputeGetUser
    \/ ComputeJson
    \/ ComputeRole
    \/ ComputeSelect
    \/ ComputeInsert
    \/ ComputeUpdate

SpecVATRoutes == InitVATRoutes /\ [][NextVATRoutes]_vars

\* ======================================================= classify route
\* POST /api/tax/classify, taken from one await to the next.  req is the
\* request with what the collaborators answer for it; while the handler
\* runs, ret holds the await it is suspended at, the classification once it
\* is computed, and the tables entity_classifications and organizations.

\* new Date().toISOString().split("T")[0]: the UTC date of the clock
\* the handler reads once, before the insert; the clock stands still while
\* a request is handled
today ==
    LET day == now.t \div 24
        y == CHOOSE k \in 2022..(LastYear + 1) :
                DaysBeforeYear(k) <= day /\ day < DaysBeforeYear(k + 1)
        m == CHOOSE k \in 1..12 :
                /\ DaysBeforeYear(y) + DaysBeforeMonth(y, k) <= day
                /\ day < DaysBeforeYear(y) + DaysBeforeMonth(y, k) + DaysInMonth(y, k)
    IN  [y |-> y, m |-> m, d |-> day - DaysBeforeYear(y) - DaysBeforeMonth(y, m) + 1]

Handling(at, frame) ==
    [kind |-> "handling", at |-> at, result |-> frame.result,
     entity_classifications |-> frame.entity_classifications,
     organizations |-> frame.organizations]

Responded(response, frame) ==
    [kind |-> "responded", response |-> response, result |-> frame.result,
     entity_classifications |-> frame.entity_classifications,
     organizations |-> frame.organizations]

\* the three fields handed to validateClassificationInput
classificationFields(body) ==
    [f \in DOMAIN body \cap {"turnover", "fixedAssets", "isProfessionalServices"} |->
        body[f]]

\* the mutant of C28: the inputs are checked for presence only
validated_presentOnly(body) ==
    {"turnover", "fixedAssets", "isProfessionalServices"} \subseteq DOMAIN body

validated(body) == validateClassificationInput(classificationFields(body)).valid

\* the row of entity_classifications
classificationRow(body, result, id) ==
    [id |-> id,
     organization_id |-> body.organizationId,
     classification_date |-> today,
     turnover_amount |-> body.turnover,
     fixed_assets_amount |-> body.fixedAssets,
     is_professional_services |-> body.isProfessionalServices,
     classification_result |-> result.classification,
     cit_exempt |-> result.citExempt,
     dev_levy_applicable |-> result.devLevyApplicable,
     classification_logic |-> [reasoning |-> result.reasoning,
                               thresholds |-> result.thresholds,
                               taxImplications |-> result.taxImplications],
     thresholds_applied |-> result.thresholds]

\* the columns the update of organizations sets
organizationUpdate(body, result) ==
    [entity_classification |-> <<result.classification>>,
     classification_last_updated |-> <<today>>,
     annual_turnover |-> <<body.turnover>>,
     fixed_assets_value |-> <<body.fixedAssets>>,
     is_professional_services |-> <<body.isProfessionalServices>>]

\* ------------------------------------------------------------ requests

Unclassified ==
    [entity_classification |-> <<>>, classification_last_updated |-> <<>>,
     annual_turnover |-> <<>>, fixed_assets_value |-> <<>>,
     is_professional_services |-> <<>>]

\* the organizations that exist
Organizations == [id \in {"org-1"} |-> Unclassified]

ClassifyRequest(user, jsonError, body, role, insertError, updateError) ==
    [op |-> "POST /api/tax/classify", user |-> user, jsonError |-> jsonError,
     body |-> body, role |-> role, insertError |-> insertError,
     updateError |-> updateError]

WithOrganization(partial, organizationId) ==
    [f \in DOMAIN partial \cup {"organizationId"} |->
        IF f = "organizationId" THEN organizationId ELSE partial[f]]

SmallInput ==
    [turnover |-> TURNOVER_THRESHOLD, fixedAssets |-> 0,
     isProfessionalServices |-> FALSE]

\* every partial input from an owner of the organization, and a well-formed
\* input with one collaborator after the other refusing
ClassifyRequests ==
    { ClassifyRequest(<<"user-1">>, FALSE, WithOrganization(i, "org-1"),
                      <<"OWNER">>, FALSE, FALSE) : i \in ClassificationPartials }
    \cup
    { ClassifyRequest(<<"user-1">>, FALSE, WithOrganization(SmallInput, "org-1"),
                      <<r>>, FALSE, FALSE) : r \in {"ADMIN", "ACCOUNTANT", "VIEWER"} }
    \cup
    { ClassifyRequest(<<>>, FALSE, WithOrganization(SmallInput, "org-1"),
                      <<"OWNER">>, FALSE, FALSE),
      ClassifyRequest(<<>>, FALSE,
                      WithOrganization([SmallInput EXCEPT !.turnover = -1], "org-1"),
                      <<"OWNER">>, FALSE, FALSE),
      ClassifyRequest(<<"user-1">>, TRUE, WithOrganization(SmallInput, "org-1"),
                      <<"OWNER">>, FALSE, FALSE),
      ClassifyRequest(<<"user-1">>, FALSE, SmallInput, <<"OWNER">>, FALSE, FALSE),
      ClassifyRequest(<<"user-1">>, FALSE, WithOrganization(SmallInput, ""),
                      <<"OWNER">>, FALSE, FALSE),
      ClassifyRequest(<<"user-1">>, FALSE, WithOrganization(SmallInput, "org-1"),
                      <<>>, FALSE, FALSE),
      ClassifyRequest(<<"user-1">>, FALSE,
                      WithOrganization([SmallInput EXCEPT !.fixedAssets = -1], "org-1"),
                      <<>>, FALSE, FALSE),
      ClassifyRequest(<<"user-1">>, FALSE, WithOrganization(SmallInput, "org-9"),
                      <<"OWNER">>, FALSE, FALSE),
      ClassifyRequest(<<"user-1">>, FALSE, WithOrganization(SmallInput, "org-1"),
                      <<"OWNER">>, TRUE, FALSE),
      ClassifyRequest(<<"user-1">>, FALSE, WithOrganization(SmallInput, "org-1"),
                      <<"OWNER">>, FALSE, TRUE) }

InitClassifyRoute ==
    /\ now \in Clock
    /\ tz \in TZOffsets
    /\ req \in ClassifyRequests
    /\ ret = Handling("createClient",
                [result |-> <<>>, entity_classifications |-> <<>>,
                 organizations |-> Organizations])

\* ---------------------------------------------------------------- steps

At(step) == ret.kind = "handling" /\ ret.at = step

\* createClient()
ConnectClient ==
    /\ At("createClient")
    /\ ret' = Handling("getUser", ret)
    /\ UNCHANGED <<now, tz, req>>

\* 1. supabase.auth.getUser()
Authenticate ==
    /\ At("getUser")
    /\ ret' = IF Len(req.user) = 0
              THEN Responded(Failure(401, "Unauthorized - Please sign in to continue"), ret)
              ELSE Handling("json", ret)
    /\ UNCHANGED <<now, tz, req>>

\* 2. request.json(), the organization id and the classification inputs
ParseAndValidate ==
    /\ At("json")
    /\ ret' =
        IF req.jsonError
        THEN Responded(Failure(400, "Invalid request body - JSON parsing failed"), ret)
        ELSE IF falsyString(req.body, "organizationId")
        THEN Responded(Failure(400, "Organization ID is required"), ret)
        ELSE IF ~validated(req.body)
        THEN Responded(
                Response(400, [success |-> FALSE, error |-> "Validation failed",
                               errors |-> validateClassificationInput(
                                            classificationFields(req.body)).errors]),
                ret)
        ELSE Handling("role", ret)
    /\ UNCHANGED <<now, tz, req>>

\* 3. the role of the user in the organization
Authorize ==
    /\ At("role")
    /\ ret' =
        IF Len(req.role) = 0
        THEN Responded(Failure(403,
                "Forbidden - You do not have access to this organization"), ret)
        ELSE IF req.role[1] \notin {"OWNER", "ADMIN", "ACCOUNTANT"}
        THEN Responded(Failure(403,
                "Forbidden - Insufficient permissions to classify entity"), ret)
        ELSE Handling("organization", ret)
    /\ UNCHANGED <<now, tz, req>>

\* 4. and 5. the organization, then classifyEntity, whose result the handler
\* holds while the insert of the record is pending; an exception of
\* classifyEntity is caught at the end of the handler
FetchOrganizationAndClassify ==
    /\ At("organization")
    /\ LET input == classificationFields(req.body)
           called == classifyEntity(input)
           classified == [ret EXCEPT !.result = <<[input |-> input, outcome |-> called]>>]
       IN  ret' =
            IF req.body.organizationId \notin DOMAIN ret.organizations
            THEN Responded(Failure(404, "Organization not found"), ret)
            ELSE IF called.kind = "throw"
            THEN Responded(Failure(500, "Internal server error - Classification failed"),
                           classified)
            ELSE Handling("insert", classified)
    /\ UNCHANGED <<now, tz, req>>

\* 6. the insert of the record
StoreClassificationRecord ==
    /\ At("insert")
    /\ ret' =
        IF req.insertError
        THEN Responded(Failure(500, "Failed to save classification record"), ret)
        ELSE Handling("update",
                [ret EXCEPT !.entity_classifications =
                    Append(@, classificationRow(req.body, ret.result[1].outcome.value,
                                                Len(@) + 1))])
    /\ UNCHANGED <<now, tz, req>>

\* 7. and 8. the update of the organization, whose failure is not fatal,
\* and the response
UpdateAndRespond ==
    /\ At("update")
    /\ LET result == ret.result[1].outcome.value
           record == ret.entity_classifications[Len(ret.entity_classifications)]
           updated ==
                IF req.updateError THEN ret
                ELSE [ret EXCEPT !.organizations[req.body.organizationId] =
                                    organizationUpdate(req.body, result)]
       IN  ret' = Responded(
                    Response(200,
                        [success |-> TRUE,
                         classification |->
                            [id |-> record.id,
                             result |-> result.classification,
                             citExempt |-> result.citExempt,
                             devLevyApplicable |-> result.devLevyApplicable,
                             reasoning |-> result.reasoning,
                             thresholds |-> result.thresholds,
                             taxImplications |-> result.taxImplications],
                         organization |->
                            [id |-> req.body.organizationId,
                             classification |-> result.classification]]),
                    updated)
    /\ UNCHANGED <<now, tz, req>>

NextClassifyRoute ==
    \/ ConnectClient
    \/ Authenticate
    \/ ParseAndValidate
    \/ Authorize
    \/ FetchOrganizationAndClassify
    \/ StoreClassificationRecord
    \/ UpdateAndRespond

SpecClassifyRoute == InitClassifyRoute /\ [][NextClassifyRoute]_vars

\* ---------------------------------------------------- classifier claims

Done(op) == req.op = op /\ ret # Pending

\* C1: with turnover >= 0 and fixedAssets >= 0, classifyEntity returns SMALL
\* exactly when the business is no professional service, turnover is at most
\* 50,000,000 and fixed assets are at most 250,000,000; it returns STANDARD
\* in every other case.
C1_SmallIffThresholds ==
    (Done("classifyEntity") /\ req.input.turnover >= 0 /\ req.input.fixedAssets >= 0)
    => /\ ret.kind = "return"
       /\ ret.value.classification =
            IF /\ ~req.input.isProfessionalServices
               /\ req.input.turnover <= 50000000
               /\ req.input.fixedAssets <= 250000000
            THEN "SMALL" ELSE "STANDARD"

\* both amounts exactly on their thresholds, classified SMALL
C1_Witness ==
    /\ Done("classifyEntity")
    /\ req.input.turnover = 50000000
    /\ req.input.fixedAssets = 250000000
    /\ ~req.input.isProfessionalServices
    /\ ret.kind = "return"
    /\ ret.value.classification = "SMALL"

\* C2: a returned result is SMALL exactly when it is CIT exempt and not
\* subject to the levy; SMALL has both rates 0; STANDARD is not exempt and
\* subject to the levy; VAT applies in both.
C2_ResultConsistent ==
    (Done("classifyEntity") /\ ret.kind = "return")
    => LET r == ret.value
       IN  /\ r.classification \in {"SMALL", "STANDARD"}
           /\ (r.classification = "SMALL") <=> (r.citExempt /\ ~r.devLevyApplicable)
           /\ r.classification = "SMALL" =>
                (r.taxImplications.citRate = 0 /\ r.taxImplications.devLevyRate = 0)
           /\ r.classification = "STANDARD" => (~r.citExempt /\ r.devLevyApplicable)
           /\ r.taxImplications.vatApplicable

\* a STANDARD result reached through the threshold tests
C2_Witness ==
    /\ Done("classifyEntity")
    /\ ~req.input.isProfessionalServices
    /\ ret.kind = "return"
    /\ ret.value.classification = "STANDARD"
    /\ ret.value.devLevyApplicable

\* C3: a negative turnover or a negative fixedAssets makes classifyEntity
\* throw and return no result, also for a professional-services business.
C3_NegativeThrows ==
    (Done("classifyEntity") /\ (req.input.turnover < 0 \/ req.input.fixedAssets < 0))
    => /\ ret.kind = "throw"
       /\ ret.message = "Turnover and fixed assets must be non-negative"
       /\ DOMAIN ret = {"kind", "error", "message"}

\* a professional-services business with negative fixed assets only
C3_Witness ==
    /\ Done("classifyEntity")
    /\ req.input.isProfessionalServices
    /\ req.input.turnover >= 0
    /\ req.input.fixedAssets < 0
    /\ ret.kind = "throw"

\* C4: the rates of a STANDARD result are those of the rate schedule for the
\* year the clock shows: CIT 0.275 in 2025 and 0.25 from 2026, levy 0.04 in
\* 2025-2026, 0.03 in 2027-2029, 0.02 from 2030.
C4_StandardRatesFollowYear ==
    (Done("classifyEntity") /\ ret.kind = "return" /\ ret.value.classification = "STANDARD")
    => LET y == getCurrentTaxYear
           t == ret.value.taxImplications
       IN  /\ y = 2025 => t.citRate = 55
           /\ y >= 2026 => t.citRate = 50
           /\ (y >= 2025 /\ y <= 2026) => t.devLevyRate = 8
           /\ (y >= 2027 /\ y <= 2029) => t.devLevyRate = 6
           /\ y >= 2030 => t.devLevyRate = 4

\* C5: from 2025 on, getCITRate is 0.275 for 2025 and 0.25 otherwise, and
\* getDevelopmentLevyRate is 0.04 for 2025-2026, 0.03 for 2027-2029 and
\* 0.02 from 2030.
C5_RateSchedule ==
    LET y == IF Len(req.args) = 0 THEN getCurrentTaxYear ELSE req.args[1]
    IN  /\ (Done("getCITRate") /\ y >= 2025)
            => ret.value = IF y = 2025 THEN 55 ELSE 50
        /\ (Done("getDevelopmentLevyRate") /\ y >= 2025)
            => ret.value = IF y <= 2026 THEN 8 ELSE IF y <= 2029 THEN 6 ELSE 4

\* the levy asked for 2027, the first year of the 3% band
C5_Witness ==
    /\ Done("getDevelopmentLevyRate")
    /\ req.args = <<2027>>
    /\ ret.value = 6

\* ---------------------------------------------------- VAT engine claims

\* the sum of field f over the records of a sequence
RECURSIVE SumOf(_, _)
SumOf(seq, f) == IF seq = <<>> THEN 0 ELSE Head(seq)[f] + SumOf(Tail(seq), f)

\* the sum of the Numbers in field f over the records of a sequence, added
\* up from 0 in the order of the sequence
RECURSIVE Sum64Of(_, _)
Sum64Of(seq, f) ==
    IF seq = <<>> THEN Zero64
    ELSE Plus64(Sum64Of(SubSeq(seq, 1, Len(seq) - 1), f), seq[Len(seq)][f])

\* C6: for any list of line items, the empty one included, totalAmount is
\* subtotal + vatAmount, vatAmount is the sum of the returned lines' vat,
\* subtotal is the sum of their lineTotal, and every returned line has
\* total = lineTotal + vat; + and the sums are those of the Numbers, taken
\* in the order of the lines.
C6_InvoiceSums ==
    Done("calculateInvoiceVAT")
    => LET c == ret.value
       IN  /\ Len(c.lineItems) = Len(req.invoice.lineItems)
           /\ Equal64(c.totalAmount, Plus64(FromInt(c.subtotal), c.vatAmount))
           /\ Equal64(c.vatAmount, Sum64Of(c.lineItems, "vat"))
           /\ c.subtotal = SumOf(c.lineItems, "lineTotal")
           /\ \A i \in 1..Len(c.lineItems) :
                Equal64(c.lineItems[i].total,
                        Plus64(FromInt(c.lineItems[i].lineTotal),
                               c.lineItems[i].vat))

\* two lines that both carry VAT, the first a VAT that is rounded: 3 * 0.1
\* is not the Number 0.3
C6_Witness ==
    /\ Done("calculateInvoiceVAT")
    /\ Len(ret.value.lineItems) = 2
    /\ ret.value.lineItems[1].lineTotal = 3
    /\ ret.value.vatRate = STANDARD_2025
    /\ Positive64(ret.value.lineItems[1].vat)
    /\ ret.value.lineItems[1].vat # FromRatio(3, 10)
    /\ Positive64(ret.value.lineItems[2].vat)
    /\ ret.value.lineItems[1].vat # ret.value.lineItems[2].vat
    /\ ret.value.vatAmount
            = Plus64(ret.value.lineItems[1].vat, ret.value.lineItems[2].vat)

\* the standard rate of the three schedule bands, for a year from 2025 on
StandardRateOfYear(y) == IF y = 2025 THEN 20 ELSE IF y <= 2029 THEN 25 ELSE 30

\* C7: a line is charged rate 0 exactly when its isBasicItem is true, on
\* every invoice date; a line whose flag is false or absent is charged the
\* standard rate of the invoice date, whatever its description says.
C7_FlagAloneZeroRates ==
    Done("calculateInvoiceVAT")
    => LET standard == getVATRate(NewDate(req.invoice.invoiceDate))
       IN  /\ standard > 0
           /\ \A i \in 1..Len(req.invoice.lineItems) :
                LET item == req.invoice.lineItems[i]
                    line == ret.value.lineItems[i]
                    isTrue == "isBasicItem" \in DOMAIN item /\ item.isBasicItem = TRUE
                IN  /\ line.lineTotal = item.quantity * item.unitPrice
                    /\ isTrue => line.vat.m = <<>>
                    /\ ~isTrue => Equal64(line.vat,
                                           TimesRate(line.lineTotal, standard))
                    /\ line.lineTotal > 0 => (line.vat.m = <<>> <=> isTrue)

\* a rice line with isBasicItem false pays VAT, next to a flagged laptop line
\* that pays none
C7_Witness ==
    /\ Done("calculateInvoiceVAT")
    /\ Len(req.invoice.lineItems) = 2
    /\ req.invoice.lineItems[1].description = Rice50kg
    /\ "isBasicItem" \in DOMAIN req.invoice.lineItems[1]
    /\ req.invoice.lineItems[1].isBasicItem = FALSE
    /\ Positive64(ret.value.lineItems[1].vat)
    /\ req.invoice.lineItems[2].description = Laptop
    /\ "isBasicItem" \in DOMAIN req.invoice.lineItems[2]
    /\ req.invoice.lineItems[2].isBasicItem = TRUE
    /\ ret.value.lineItems[2].lineTotal > 0
    /\ ret.value.lineItems[2].vat.m = <<>>

\* C8: getVATRate returns 0.10 for a date of calendar year 2025, 0.125 for
\* 2026 to 2029 and 0.15 from 2030, the year being the one getFullYear
\* gives for the date.
C8_VATRateByYear ==
    (Done("getVATRate") /\ DateOf(req).valid)
    => LET y == getFullYear(DateOf(req))
       IN  /\ y = 2025 => ret.value = 20
           /\ (y >= 2026 /\ y <= 2029) => ret.value = 25
           /\ y >= 2030 => ret.value = 30

\* the first day of 2030, read in UTC
C8_Witness ==
    /\ Done("getVATRate")
    /\ tz = 0
    /\ req.date = <<NewDate([y |-> 2030, m |-> 1, d |-> 1])>>
    /\ ret.value = 30

\* the description, lower-cased, has a keyword of the list as a substring
ContainsKeyword(description) ==
    LET lower == toLowerCase(description)
    IN  \E n \in 1..Len(BASIC_ITEMS_KEYWORDS) :
            \E i \in 1..Len(lower) :
                /\ i + Len(BASIC_ITEMS_KEYWORDS[n]) - 1 <= Len(lower)
                /\ SubSeq(lower, i, i + Len(BASIC_ITEMS_KEYWORDS[n]) - 1)
                        = BASIC_ITEMS_KEYWORDS[n]

\* C9: getApplicableVATRate returns 0 exactly when the lower-cased
\* description contains a keyword of the list as a substring, and the
\* standard rate of the date otherwise.
C9_ApplicableRate ==
    Done("getApplicableVATRate")
    => /\ ContainsKeyword(req.description)
            => (ret.value = 0 /\ isBasicItem(req.description))
       /\ ~ContainsKeyword(req.description)
            => /\ ~isBasicItem(req.description)
               /\ ret.value > 0
               /\ ret.value = getVATRate(DateOf(req))
               /\ (DateOf(req).valid /\ getFullYear(DateOf(req)) >= 2025)
                    => ret.value = StandardRateOfYear(getFullYear(DateOf(req)))

\* 'Price list' holds the keyword rice inside another word and is zero-rated
C9_Witness ==
    /\ Done("getApplicableVATRate")
    /\ req.description = Text(<<"P","r","i","c","e"," ","l","i","s","t">>)
    /\ req.date = <<NewDate([y |-> 2026, m |-> 1, d |-> 1])>>
    /\ ret.value = 0

\* the invoice of the documentation: a laptop line that is not basic and a
\* flagged rice line, dated 2025-06-01
IsExampleInvoice(invoice) ==
    /\ invoice.invoiceDate = [y |-> 2025, m |-> 6, d |-> 1]
    /\ Len(invoice.lineItems) = 2
    /\ invoice.lineItems[1].quantity = 1
    /\ invoice.lineItems[1].unitPrice = 500000
    /\ ~("isBasicItem" \in DOMAIN invoice.lineItems[1] /\ invoice.lineItems[1].isBasicItem)
    /\ invoice.lineItems[2].quantity = 2
    /\ invoice.lineItems[2].unitPrice = 50000
    /\ "isBasicItem" \in DOMAIN invoice.lineItems[2]
    /\ invoice.lineItems[2].isBasicItem

\* C10: lineTotal is quantity * unitPrice and vat is lineTotal * rate, so
\* the invoice of 2025-06-01 with a non-basic line 1 x 500,000 and a basic
\* line 2 x 50,000 has subtotal 600,000, vatAmount 50,000, totalAmount
\* 650,000.
C10_ExampleInvoice ==
    (Done("calculateInvoiceVAT") /\ IsExampleInvoice(req.invoice))
    => /\ ret.value.lineItems[1].lineTotal = 500000
       /\ Equal64(ret.value.lineItems[1].vat, FromInt(50000))
       /\ ret.value.lineItems[2].lineTotal = 100000
       /\ Equal64(ret.value.lineItems[2].vat, Zero64)
       /\ ret.value.subtotal = 600000
       /\ Equal64(ret.value.vatAmount, FromInt(50000))
       /\ Equal64(ret.value.totalAmount, FromInt(650000))

\* the example invoice, calculated, with the rice line described as rice
C10_Witness ==
    /\ Done("calculateInvoiceVAT")
    /\ IsExampleInvoice(req.invoice)
    /\ req.invoice.lineItems[1].description = Laptop
    /\ req.invoice.lineItems[2].description = Rice50kg
    /\ ret.value.totalAmount = FromInt(650000)

\* C11: the vatRate of the calculation is the standard rate of the invoice
\* date, whatever the lines are: also when lines are zero-rated and when
\* there is no line.
C11_InvoiceRateIsStandard ==
    Done("calculateInvoiceVAT")
    => LET date == NewDate(req.invoice.invoiceDate)
       IN  /\ ret.value.vatRate = getVATRate(date)
           /\ ret.value.vatRate \in {20, 25, 30}
           /\ (date.valid /\ getFullYear(date) >= 2025)
                => ret.value.vatRate = StandardRateOfYear(getFullYear(date))

\* an invoice of 2025 whose only line is zero-rated still reports 10%
C11_Witness ==
    /\ Done("calculateInvoiceVAT")
    /\ req.invoice.invoiceDate = [y |-> 2025, m |-> 6, d |-> 1]
    /\ Len(req.invoice.lineItems) = 1
    /\ ret.value.subtotal > 0
    /\ ret.value.vatAmount.m = <<>>
    /\ ret.value.vatRate = 20

\* ------------------------------------------------------ validator claims

\* the messages of a list of errors
Messages(errors) == { errors[i] : i \in 1..Len(errors) }

\* C12: validateVATInvoice reports the gross-amount error exactly when
\* grossAmount is absent or negative; with the other fields in order, any
\* grossAmount >= 0, also 0 with a consistent vatAmount, is valid.
C12_GrossErrorIffAbsentOrNegative ==
    Done("validateVATInvoice")
    => LET i == req.partial
           absentOrNegative == ~("grossAmount" \in DOMAIN i) \/ i.grossAmount < 0
       IN  /\ ("Valid gross amount is required" \in Messages(ret.value.errors))
                <=> absentOrNegative
           /\ ( /\ DOMAIN i = {"invoiceNumber", "invoiceDate", "customerName",
                               "grossAmount", "vatRate", "vatAmount", "invoiceType"}
                /\ i.invoiceNumber = "INV-001"
                /\ i.invoiceDate = [y |-> 2025, m |-> 6, d |-> 1]
                /\ i.invoiceType \in {"OUTPUT", "INPUT"}
                /\ i.grossAmount >= 0
                /\ i.vatAmount = Written[i.grossAmount * i.vatRate] )
                => ret.value.valid

\* the decimal amount, in units of 1/RateScale naira, that a Number of the
\* requests was written as
WrittenAs(number) == CHOOSE k \in NearProducts : Written[k] = number

\* C13: with grossAmount >= 0 and vatRate both present, the VAT-mismatch
\* error is reported exactly when |vatAmount - grossAmount * vatRate| > 0.01,
\* as an entry of errors.
C13_MismatchIffBeyondTolerance ==
    ( /\ Done("validateVATInvoice")
      /\ "grossAmount" \in DOMAIN req.partial
      /\ "vatRate" \in DOMAIN req.partial
      /\ req.partial.grossAmount >= 0 )
    => LET i == req.partial
           vatAmount == IF "vatAmount" \in DOMAIN i THEN WrittenAs(i.vatAmount)
                        ELSE 0
           difference == vatAmount - i.grossAmount * i.vatRate
       IN  /\ ret.kind = "return"
           /\ ("VAT amount does not match gross amount x VAT rate"
                    \in Messages(ret.value.errors))
                <=> (difference > 2 \/ difference < -2)

\* a complete invoice next to which all groups of fields but the given one
\* are in order
ValidInvoice ==
    [invoiceNumber |-> "INV-001", invoiceDate |-> [y |-> 2025, m |-> 6, d |-> 1],
     customerName |-> "Customer Ltd", grossAmount |-> 400,
     vatRate |-> 20, vatAmount |-> FromInt(40), invoiceType |-> "OUTPUT"]

Isolated(invoice, group) ==
    [f \in (DOMAIN ValidInvoice \ group) \cup (DOMAIN invoice \cap group) |->
        IF f \in group THEN invoice[f] ELSE ValidInvoice[f]]

FieldGroups ==
    << {"invoiceNumber"}, {"invoiceDate"}, {"customerName"}, {"invoiceType"},
       {"grossAmount", "vatRate", "vatAmount"} >>

\* C14: the validators return and never stop at the first failure.  For
\* validateClassificationInput every one of the three rules that is broken
\* has its entry; for validateVATInvoice the errors are those that each
\* group of fields yields on its own, one next to the other; valid is true
\* exactly when errors is empty.
C14_AllViolationsCollected ==
    /\ Done("validateClassificationInput")
        => LET i == req.partial
               e == ret.value.errors
               turnoverBroken == ~("turnover" \in DOMAIN i) \/ i.turnover < 0
               assetsBroken == ~("fixedAssets" \in DOMAIN i) \/ i.fixedAssets < 0
               flagBroken == ~("isProfessionalServices" \in DOMAIN i)
           IN  /\ ret.kind = "return"
               /\ Len(e) = (IF turnoverBroken THEN 1 ELSE 0)
                         + (IF assetsBroken THEN 1 ELSE 0)
                         + (IF flagBroken THEN 1 ELSE 0)
               /\ turnoverBroken <=>
                    (Messages(e) \cap {"Annual turnover is required",
                                       "Annual turnover cannot be negative"} # {})
               /\ assetsBroken <=>
                    (Messages(e) \cap {"Fixed assets value is required",
                                       "Fixed assets value cannot be negative"} # {})
               /\ flagBroken <=> ("Professional services flag is required" \in Messages(e))
               /\ ret.value.valid <=> (e = <<>>)
    /\ Done("validateVATInvoice")
        => LET e == ret.value.errors
               alone(n) == validateVATInvoice(Isolated(req.partial, FieldGroups[n])).errors
           IN  /\ ret.kind = "return"
               /\ Messages(e) = UNION { Messages(alone(n)) : n \in 1..5 }
               /\ Len(e) = Len(alone(1)) + Len(alone(2)) + Len(alone(3))
                            + Len(alone(4)) + Len(alone(5))
               /\ ret.value.valid <=> (e = <<>>)

\* the input without turnover, with negative fixed assets and without the
\* flag: three errors
C14_Witness ==
    /\ Done("validateClassificationInput")
    /\ DOMAIN req.partial = {"fixedAssets"}
    /\ req.partial.fixedAssets < 0
    /\ Len(ret.value.errors) = 3
    /\ ~ret.value.valid

\* ------------------------------------------------------- position claims

\* a <= b of the Dates of two ISO date strings: false when either is the
\* invalid date
DateLE(a, b) ==
    /\ NewDate(a).valid
    /\ NewDate(b).valid
    /\ NewDate(a).t <= NewDate(b).t

\* the indices of the invoices of the call dated within the period
InRange ==
    { i \in 1..Len(req.invoices) :
        /\ DateLE(req.periodStart, req.invoices[i].invoiceDate)
        /\ DateLE(req.invoices[i].invoiceDate, req.periodEnd) }

\* those of them of a type
InRangeOfType(type) == { i \in InRange : req.invoices[i].invoiceType = type }

\* the VAT amounts of the invoices at the indices, added up in the order
\* of the invoices
RECURSIVE SumAt(_)
SumAt(indices) ==
    IF indices = {} THEN Zero64
    ELSE LET i == CHOOSE j \in indices : \A k \in indices : k <= j
         IN  Plus64(SumAt(indices \ {i}), req.invoices[i].vatAmount)

\* x < 0
Negative64(x) == x.m # <<>> /\ x.neg

\* C15: computeVATPosition counts an invoice exactly when periodStart <=
\* invoiceDate <= periodEnd: invoices dated on either end are in, invoices
\* dated the day before the start or the day after the end add nothing to
\* the totals and the counts.
C15_InclusivePeriod ==
    Done("computeVATPosition")
    => /\ ret.value.invoiceCount.total = Cardinality(InRange)
       /\ Equal64(ret.value.outputVAT, SumAt(InRangeOfType("OUTPUT")))
       /\ Equal64(ret.value.inputVAT, SumAt(InRangeOfType("INPUT")))

\* an invoice of the last day is counted, one of the day after is not
C15_Witness ==
    /\ Done("computeVATPosition")
    /\ req.periodStart = June.start /\ req.periodEnd = June.end
    /\ Len(req.invoices) = 2
    /\ req.invoices[1].invoiceDate = June.end
    /\ req.invoices[2].invoiceDate = [y |-> 2025, m |-> 7, d |-> 1]
    /\ ret.value.invoiceCount.total = 1
    /\ Plus64(ret.value.outputVAT, ret.value.inputVAT) = req.invoices[1].vatAmount

\* C16: outputVAT and inputVAT are the sums of vatAmount over the in-range
\* invoices of type OUTPUT and INPUT, invoiceCount.output and .input are the
\* numbers of those invoices, and invoiceCount.total is their sum.
C16_TotalsByType ==
    Done("computeVATPosition")
    => /\ Equal64(ret.value.outputVAT, SumAt(InRangeOfType("OUTPUT")))
       /\ Equal64(ret.value.inputVAT, SumAt(InRangeOfType("INPUT")))
       /\ ret.value.invoiceCount.output = Cardinality(InRangeOfType("OUTPUT"))
       /\ ret.value.invoiceCount.input = Cardinality(InRangeOfType("INPUT"))
       /\ ret.value.invoiceCount.total
            = ret.value.invoiceCount.output + ret.value.invoiceCount.input

\* a sale and a purchase of different amounts within the period
C16_Witness ==
    /\ Done("computeVATPosition")
    /\ ret.value.invoiceCount.output = 1
    /\ ret.value.invoiceCount.input = 1
    /\ ret.value.outputVAT = Amount(55837790)
    /\ ret.value.inputVAT = Amount(21548510)

\* a position with neither amount negative and not both non-zero
OneSided(position) ==
    /\ ~Negative64(position.netVATPayable)
    /\ ~Negative64(position.excessCredit)
    /\ ~(position.netVATPayable.m # <<>> /\ position.excessCredit.m # <<>>)

\* C17: netVATPayable and excessCredit are never both non-zero and never
\* negative, in the position of computeVATPosition and in every position of
\* computeCumulativeVATPosition.
C17_NeverBothNonZero ==
    /\ Done("computeVATPosition") => OneSided(ret.value)
    /\ (req.op = "computeCumulativeVATPosition" /\ ret.kind = "return")
        => \A k \in 1..Len(ret.value) : OneSided(ret.value[k])

\* a credit of the first period that covers the payable of the second only
\* in part
C17_Witness ==
    /\ req.op = "computeCumulativeVATPosition"
    /\ ret.kind = "return"
    /\ Len(ret.value) >= 2
    /\ Positive64(ret.value[1].excessCredit)
    /\ Greater64(Minus64(ret.value[2].outputVAT, ret.value[2].inputVAT),
                 ret.value[2].netVATPayable)
    /\ Positive64(ret.value[2].netVATPayable)

\* C18, as stated: in every position of computeVATPosition exactly one of
\* netVATPayable and excessCredit is non-zero.
C18_ExactlyOneNonZero ==
    Done("computeVATPosition")
    => (ret.value.netVATPayable.m # <<>>) # (ret.value.excessCredit.m # <<>>)

\* C18, amended: at most one of netVATPayable and excessCredit is non-zero,
\* and one of them is non-zero exactly when outputVAT differs from inputVAT;
\* with equal totals, no invoices included, both are 0.
C18_OneNonZeroUnlessBalanced ==
    Done("computeVATPosition")
    => /\ ~(ret.value.netVATPayable.m # <<>> /\ ret.value.excessCredit.m # <<>>)
       /\ (ret.value.netVATPayable.m # <<>> \/ ret.value.excessCredit.m # <<>>)
            <=> ~Equal64(ret.value.outputVAT, ret.value.inputVAT)

\* sales and purchases of the same VAT: the balanced position
C18_Witness ==
    /\ Done("computeVATPosition")
    /\ Positive64(ret.value.outputVAT)
    /\ Equal64(ret.value.outputVAT, ret.value.inputVAT)
    /\ ret.value.netVATPayable.m = <<>>
    /\ ret.value.excessCredit.m = <<>>

\* C19: every position of computeVATPosition has netVATPayable + inputVAT =
\* outputVAT + excessCredit, netVATPayable = max(0, outputVAT - inputVAT) and
\* excessCredit = max(0, inputVAT - outputVAT).
C19_AccountingIdentity ==
    Done("computeVATPosition")
    => LET p == ret.value
       IN  /\ Equal64(Plus64(p.netVATPayable, p.inputVAT),
                      Plus64(p.outputVAT, p.excessCredit))
           /\ Equal64(p.netVATPayable,
                      IF Greater64(p.outputVAT, p.inputVAT)
                      THEN Minus64(p.outputVAT, p.inputVAT) ELSE Zero64)
           /\ Equal64(p.excessCredit,
                      IF Greater64(p.inputVAT, p.outputVAT)
                      THEN Minus64(p.inputVAT, p.outputVAT) ELSE Zero64)

\* the first period closes with 1000 of credit, the second with 1500 payable
IsCreditExample ==
    /\ req.op = "computeCumulativeVATPosition"
    /\ Len(req.periods) >= 2
    /\ req.periods[1] = Ledger(1, 0, 1000000)
    /\ req.periods[2] = Ledger(2, 1500000, 0)

\* the notes of credit applied in a summary
CreditNotes(summary) ==
    SelectSeq(summary, LAMBDA line : line.text = "Carry-forward credit applied")

\* the lower of two Numbers
Min64(x, y) == IF Greater64(x, y) THEN y ELSE x

\* C20: an iteration of computeCumulativeVATPosition that starts with carried
\* credit > 0 lowers the period's netVATPayable by creditUsed =
\* min(carried credit, standalone netVATPayable), takes exactly creditUsed
\* off the accumulator and appends a note of creditUsed to the summary; an
\* iteration that starts with no credit leaves the standalone position as it
\* is, without a note.  With 1000 of credit from the first period and 1500
\* payable in the second, the second is returned with 500 payable and a note
\* of 1000, and the credit left is 0.
C20_CarryForwardApplied ==
    [][ (ret.kind = "loop" /\ ret'.kind = "loop")
        => LET k == Len(ret.positions) + 1
               period == req.periods[k]
               standalone == computeVATPosition(period.invoices, period.start,
                                                period.end)
               carried == ret.carryForwardCredit
               creditUsed == Min64(carried, standalone.netVATPayable)
               position == ret'.positions[k]
           IN  /\ Len(ret'.positions) = k
               /\ SubSeq(ret'.positions, 1, k - 1) = ret.positions
               /\ Positive64(carried)
                    => /\ Equal64(ret'.carryForwardCredit,
                                  Plus64(Minus64(carried, creditUsed),
                                         standalone.excessCredit))
                       /\ Equal64(position.netVATPayable,
                                  Minus64(standalone.netVATPayable, creditUsed))
                       /\ position.summary = standalone.summary \o
                            << [text |-> ""],
                               [text |-> "Carry-forward credit applied",
                                amount |-> formatCurrency(creditUsed)] >>
                       /\ [position EXCEPT !.netVATPayable = Zero64, !.summary = <<>>]
                            = [standalone EXCEPT !.netVATPayable = Zero64,
                                                 !.summary = <<>>]
               /\ carried.m = <<>>
                    => /\ position = standalone
                       /\ CreditNotes(position.summary) = <<>>
                       /\ Equal64(ret'.carryForwardCredit, standalone.excessCredit)
               /\ (IsCreditExample /\ k = 2)
                    => /\ position.netVATPayable = Amount(500000)
                       /\ CreditNotes(position.summary)
                            = << [text |-> "Carry-forward credit applied",
                                  amount |-> [negative |-> FALSE, naira |-> 1000, kobo |-> 0]] >>
                       /\ ret'.carryForwardCredit.m = <<>> ]_vars

\* the position of the k-th period computed on its own
Standalone(k) ==
    computeVATPosition(req.periods[k].invoices, req.periods[k].start,
                       req.periods[k].end)

\* the standalone positions of the first k periods
RECURSIVE Standalones(_)
Standalones(k) ==
    IF k = 0 THEN <<>> ELSE Append(Standalones(k - 1), Standalone(k))

\* the excessCredit of the first k periods, each on its own, summed
RECURSIVE ExcessUpTo(_, _)
ExcessUpTo(alone, k) ==
    IF k = 0 THEN Zero64
    ELSE Plus64(ExcessUpTo(alone, k - 1), alone[k].excessCredit)

\* the credit used in the first k of the positions: what each netVATPayable
\* is below the standalone one
RECURSIVE UsedUpTo(_, _, _)
UsedUpTo(alone, positions, k) ==
    IF k = 0 THEN Zero64
    ELSE Plus64(UsedUpTo(alone, positions, k - 1),
                Minus64(alone[k].netVATPayable, positions[k].netVATPayable))

\* the positions are those of a correct run over the first periods
CreditAccounted(alone, positions) ==
    \A k \in 1..Len(positions) :
        /\ ~Greater64(positions[k].netVATPayable, alone[k].netVATPayable)
        /\ ~Greater64(UsedUpTo(alone, positions, k), ExcessUpTo(alone, k - 1))
        /\ (ExcessUpTo(alone, k - 1).m = <<>>) => positions[k] = alone[k]

\* C21: the carry-forward accumulator starts at 0 and is never negative;
\* after k periods it is the standalone excessCredit of periods 1..k less
\* the credit used in them.  So the reduction of netVATPayable over a prefix
\* never exceeds the excessCredit of strictly earlier periods, credit that
\* is not used stays for later periods, and no period is reduced by credit
\* of a later one.
C21_AccumulatorBalance ==
    /\ (ret.kind = "loop")
        => LET alone == Standalones(Len(ret.positions))
           IN  /\ ~Negative64(ret.carryForwardCredit)
               /\ (ret.positions = <<>>) => ret.carryForwardCredit.m = <<>>
               /\ Equal64(ret.carryForwardCredit,
                          Minus64(ExcessUpTo(alone, Len(ret.positions)),
                                  UsedUpTo(alone, ret.positions, Len(ret.positions))))
               /\ CreditAccounted(alone, ret.positions)
    /\ (req.op = "computeCumulativeVATPosition" /\ ret.kind = "return")
        => /\ Len(ret.value) = Len(req.periods)
           /\ CreditAccounted(Standalones(Len(req.periods)), ret.value)

\* the texts of a list of summary lines
Texts(summary) == [i \in 1..Len(summary) |-> summary[i].text]

\* C22: the summary of computeVATPosition lists, in this order, the period
\* label, the output total with its invoice count and the input total with
\* its invoice count, and ends with exactly one outcome: the payable line
\* with the remittance action iff netVATPayable > 0, the excess-credit line
\* with the carry-forward action iff excessCredit > 0, the balanced line iff
\* both are 0.
C22_SummaryOutcome ==
    Done("computeVATPosition")
    => LET p == ret.value
           s == p.summary
           closing == SubSeq(s, 9, Len(s))
           payable == << [text |-> "Net VAT Payable", amount |-> formatCurrency(p.netVATPayable)],
                         [text |-> "Action: Remit to FIRS by 21st of following month"] >>
           carried == << [text |-> "Excess Credit", amount |-> formatCurrency(p.excessCredit)],
                         [text |-> "Action: Carry forward to next period"] >>
           balanced == << [text |-> "Net VAT Position: 0.00 (balanced)"] >>
       IN  /\ Len(s) >= 9
           /\ Texts(SubSeq(s, 1, 8))
                = << "VAT Position for", "", "Output VAT (Sales)", "From sales invoices",
                     "", "Input VAT (Purchases)", "From purchase invoices", "" >>
           /\ s[1].from = p.period.from /\ s[1].to = p.period.to
           /\ s[3].amount = formatCurrency(p.outputVAT)
           /\ s[4].count = p.invoiceCount.output
           /\ s[6].amount = formatCurrency(p.inputVAT)
           /\ s[7].count = p.invoiceCount.input
           /\ closing \in {payable, carried, balanced}
           /\ (closing = payable) <=> Positive64(p.netVATPayable)
           /\ (closing = carried) <=> Positive64(p.excessCredit)
           /\ (closing = balanced)
                <=> (p.netVATPayable.m = <<>> /\ p.excessCredit.m = <<>>)

\* equal sales and purchases: the summary ends with the balanced line
C22_Witness ==
    /\ Done("computeVATPosition")
    /\ ret.value.invoiceCount.output = 1
    /\ ret.value.invoiceCount.input = 1
    /\ ret.value.netVATPayable.m = <<>>
    /\ ret.value.excessCredit.m = <<>>
    /\ Len(ret.value.summary) = 9
    /\ ret.value.summary[9].text = "Net VAT Position: 0.00 (balanced)"

\* ------------------------------------------------- reasoning trail claim

\* the entries of a trail that are the given threshold test
TestEntries(reasoning, text) ==
    { i \in 1..Len(reasoning) : reasoning[i].text = text }

\* the six entries buildStandardResult pushes
StandardEntries ==
    << Line(""), Line("CLASSIFICATION: STANDARD COMPANY"),
       Line("Tax implications:"),
       Line("Subject to Company Income Tax (CIT) at 25% (from 2026)"),
       Line("Subject to Development Levy at 4% (2025-2026)"),
       Line("Subject to VAT at applicable rates") >>

\* C23: without professional services the trail of classifyEntity holds
\* exactly one turnover-test entry followed by exactly one assets-test
\* entry, each marked pass or fail as thresholds.turnoverMet and
\* thresholds.assetsMet say, also when the turnover test failed; with
\* professional services the exclusion is the only step before the entries
\* of the STANDARD builder and there is no threshold-test entry.
C23_ReasoningTrail ==
    (Done("classifyEntity") /\ ret.kind = "return")
    => LET trail == ret.value.reasoning
           marked(met) == IF met THEN "pass" ELSE "fail"
       IN  IF req.input.isProfessionalServices
           THEN /\ TestEntries(trail, "Turnover test") = {}
                /\ TestEntries(trail, "Assets test") = {}
                /\ Len(trail) = 2 + Len(StandardEntries)
                /\ trail[1].text = "Professional services exclusion"
                /\ trail[2].text = "Professional services businesses cannot qualify as SMALL companies per Section 56"
                /\ SubSeq(trail, 3, Len(trail)) = StandardEntries
           ELSE /\ TestEntries(trail, "Turnover test") = {1}
                /\ TestEntries(trail, "Assets test") = {2}
                /\ trail[1].mark = marked(ret.value.thresholds.turnoverMet)
                /\ trail[2].mark = marked(ret.value.thresholds.assetsMet)
                /\ ret.value.thresholds.turnoverMet
                    <=> (req.input.turnover <= TURNOVER_THRESHOLD)
                /\ ret.value.thresholds.assetsMet
                    <=> (req.input.fixedAssets <= ASSETS_THRESHOLD)

\* the turnover test failed and the assets test is still recorded, as passed
C23_Witness ==
    /\ Done("classifyEntity")
    /\ ret.kind = "return"
    /\ ~req.input.isProfessionalServices
    /\ req.input.turnover > TURNOVER_THRESHOLD
    /\ ret.value.reasoning[1].mark = "fail"
    /\ ret.value.reasoning[2].text = "Assets test"
    /\ ret.value.reasoning[2].mark = "pass"

\* ----------------------------------------------------------- route claims

\* the k-th request of the session has been answered with the given error
Refused(k, status, error) ==
    /\ ret.handlers[k].at = "responded"
    /\ ret.handlers[k].response.status = status
    /\ ret.handlers[k].response.body.error = error

\* the body names an invoice and its party, a parseable date and a valid type
WellFormed(body) ==
    /\ ~falsyString(body, "organizationId")
    /\ ~falsyString(body, "invoiceNumber")
    /\ ~falsyString(body, "customerName")
    /\ has(body, "invoiceDate") /\ NewDate(body.invoiceDate).valid
    /\ has(body, "invoiceType") /\ body.invoiceType \in {"OUTPUT", "INPUT"}
    /\ has(body, "lineItems")
        => \A i \in 1..Len(body.lineItems) :
                body.lineItems[i].quantity >= 0 /\ body.lineItems[i].unitPrice >= 0

\* C24: every invoice the calculation step produces passes the validation
\* step: a request of an authorized user with invoiceNumber, customerName, a
\* parseable date, a valid invoiceType and lines with quantity >= 0 and
\* unitPrice >= 0, zero-rated lines next to standard-rated ones included, is
\* not refused by POST /api/tax/vat/invoices with 'Validation failed'.
C24_CalculatedInvoiceIsValid ==
    (req.op = "session" /\ ret.kind = "serving")
    => \A k \in 1..Len(req.requests) :
        LET request == req.requests[k]
        IN  ( /\ request.route = "POST /api/tax/vat/invoices"
              /\ Len(request.user) = 1
              /\ ~forbidden(request.role)
              /\ WellFormed(request.body) )
            => ~Refused(k, 400, "Validation failed")

\* the rows of vat_invoices of the organization, of a type, dated within
\* the period
StoredOfType(body, type) ==
    { i \in 1..Len(ret.vat_invoices) :
        /\ ret.vat_invoices[i].organization_id = body.organizationId
        /\ ret.vat_invoices[i].invoice_type = type
        /\ lte(body.periodStart, ret.vat_invoices[i].invoice_date)
        /\ lte(ret.vat_invoices[i].invoice_date, body.periodEnd) }

\* the VAT amounts of the rows at the indices, summed
RECURSIVE StoredVAT(_)
StoredVAT(indices) ==
    IF indices = {} THEN Zero64
    ELSE LET i == CHOOSE j \in indices : \A k \in indices : k <= j
         IN  Plus64(StoredVAT(indices \ {i}), ret.vat_invoices[i].vat_amount)

\* the totals and the count of a position are those of the stored invoices
\* a request asks for
ReflectsStored(position, body) ==
    LET output == StoredOfType(body, "OUTPUT")
        input == StoredOfType(body, "INPUT")
    IN  /\ Equal64(position.outputVAT, StoredVAT(output))
        /\ Equal64(position.inputVAT, StoredVAT(input))
        /\ position.invoiceCount.total = Cardinality(output) + Cardinality(input)

\* C27: the position POST /api/tax/vat/compute returns reflects the stored
\* invoices: outputVAT and inputVAT are the sums of the VAT amounts of the
\* invoices of type OUTPUT and INPUT that POST /api/tax/vat/invoices stored
\* for the organization with a date within the period, and
\* invoiceCount.total is the number of those invoices.  The stored invoices
\* are those of the table when the handler reads it, and the position of the
\* response is the one computed then.
C27_PositionReflectsStoredInvoices ==
    [][ (req.op = "session" /\ ret.kind = "serving")
        => \A k \in 1..Len(req.requests) :
            /\ ( /\ Running(k, "POST /api/tax/vat/compute", "select")
                 /\ ret'.handlers[k].at = "insert" )
                => ReflectsStored(ret'.handlers[k].position, req.requests[k].body)
            /\ ( /\ req.requests[k].route = "POST /api/tax/vat/compute"
                 /\ ret.handlers[k].at \in {"insert", "update"}
                 /\ ret'.handlers[k].at = "responded" )
                => /\ ret'.handlers[k].response.status = 200
                   /\ ret'.handlers[k].response.body.position
                        = ret.handlers[k].position ]_vars

\* ------------------------------------------- cumulative position claims

\* the positions computeCumulativeVATPosition has returned
Returned ==
    IF req.op = "computeCumulativeVATPosition" /\ ret.kind = "return"
    THEN ret.value ELSE <<>>

\* the lines of a summary with the given text
LinesOf(summary, text) == SelectSeq(summary, LAMBDA line : line.text = text)

\* C25: in every position computeCumulativeVATPosition returns, the
\* 'Net VAT Payable' line and the remit-to-FIRS action are in the summary
\* only if the returned netVATPayable is > 0, and the amount the line states
\* is the returned, credit-adjusted netVATPayable.
C25_SummaryAgreesWithPayable ==
    \A k \in 1..Len(Returned) :
        LET position == Returned[k]
            payable == LinesOf(position.summary, "Net VAT Payable")
            action == LinesOf(position.summary,
                        "Action: Remit to FIRS by 21st of following month")
        IN  /\ (payable # <<>> \/ action # <<>>) => Positive64(position.netVATPayable)
            /\ \A i \in 1..Len(payable) :
                    payable[i].amount = formatCurrency(position.netVATPayable)

\* C26: every position computeCumulativeVATPosition returns, those with
\* credit applied included, has netVATPayable + inputVAT = outputVAT +
\* excessCredit.
C26_CumulativeIdentity ==
    \A k \in 1..Len(Returned) :
        Equal64(Plus64(Returned[k].netVATPayable, Returned[k].inputVAT),
                Plus64(Returned[k].outputVAT, Returned[k].excessCredit))

\* ------------------------------------------------- classify route claim

\* the body names the organization and the three inputs, none negative
AcceptableBody ==
    /\ ~req.jsonError
    /\ "organizationId" \in DOMAIN req.body /\ req.body.organizationId # ""
    /\ {"turnover", "fixedAssets", "isProfessionalServices"} \subseteq DOMAIN req.body
    /\ req.body.turnover >= 0
    /\ req.body.fixedAssets >= 0

MayClassify == Len(req.role) = 1 /\ req.role[1] \in {"OWNER", "ADMIN", "ACCOUNTANT"}

\* the status the first check that fails answers with, 200 when none fails
ExpectedStatus ==
    IF Len(req.user) = 0 THEN 401
    ELSE IF ~AcceptableBody THEN 400
    ELSE IF ~MayClassify THEN 403
    ELSE IF req.body.organizationId \notin DOMAIN Organizations THEN 404
    ELSE IF req.insertError THEN 500
    ELSE 200

\* C28: POST /api/tax/classify takes its steps in a fixed order and leaves
\* at the first that fails: 401 without a signed-in user, 400 for a body
\* that does not parse, names no organization or fails
\* validateClassificationInput, 403 without the role OWNER, ADMIN or
\* ACCOUNTANT, 404 for an organization that does not exist.  A record is
\* inserted only after all of these passed; the organization is updated
\* only after the insert succeeded, a failed insert answers 500 and leaves
\* the organization as it was; classifyEntity is never reached with a
\* negative amount.
C28_ClassifyRouteOrder ==
    (req.op = "POST /api/tax/classify")
    => /\ (ret.entity_classifications # <<>>)
            => /\ Len(req.user) = 1
               /\ AcceptableBody
               /\ MayClassify
               /\ req.body.organizationId \in DOMAIN Organizations
               /\ ~req.insertError
               /\ Len(ret.entity_classifications) = 1
               /\ ret.entity_classifications[1].organization_id = req.body.organizationId
       /\ (ret.organizations # Organizations)
            => /\ ret.entity_classifications # <<>>
               /\ ret.organizations[req.body.organizationId].entity_classification
                    = <<ret.entity_classifications[1].classification_result>>
       /\ (ret.result # <<>>)
            => /\ ret.result[1].input.turnover >= 0
               /\ ret.result[1].input.fixedAssets >= 0
               /\ ret.result[1].outcome.kind = "return"
               /\ Len(req.user) = 1 /\ AcceptableBody /\ MayClassify
       /\ (ret.kind = "responded")
            => /\ ret.response.status = ExpectedStatus
               /\ (ret.response.status = 500)
                    => /\ ret.response.body.error = "Failed to save classification record"
                       /\ ret.entity_classifications = <<>>
                       /\ ret.organizations = Organizations
               /\ (ret.response.status = 200)
                    => /\ Len(ret.entity_classifications) = 1
                       /\ req.updateError <=> (ret.organizations = Organizations)
               /\ (ret.response.status \in {400, 401, 403, 404})
                    => /\ ret.result = <<>>
                       /\ ret.entity_classifications = <<>>
                       /\ ret.organizations = Organizations

\* the insert failed after the classification: 500, nothing stored, the
\* organization as before
C28_Witness ==
    /\ req.op = "POST /api/tax/classify"
    /\ ret.kind = "responded"
    /\ req.insertError
    /\ ret.result # <<>>
    /\ ret.response.status = 500
    /\ ret.entity_classifications = <<>>
    /\ ret.organizations = Organizations

\* ------------------------------------------------- VAT rate year claims

\* the standard rate of the schedule for a calendar year
ScheduledRate(y) ==
    IF y = 2025 THEN STANDARD_2025
    ELSE IF y >= 2026 /\ y <= 2029 THEN STANDARD_2026_2029
    ELSE STANDARD_2030

\* C29: the standard rate calculateInvoiceVAT applies depends only on the
\* calendar year written in the ISO invoiceDate, not on the time zone of
\* the machine: an invoice dated 2026-01-01 has the same vatRate and
\* vatAmount under every local offset, those of the year 2026.
C29_RateOfWrittenYear ==
    (Done("calculateInvoiceVAT") /\ NewDate(req.invoice.invoiceDate).valid)
    => LET rate == ScheduledRate(req.invoice.invoiceDate.y)
           lines == ret.value.lineItems
       IN  /\ ret.value.vatRate = rate
           /\ Equal64(ret.value.vatAmount,
                       Sum64Of([i \in 1..Len(lines) |->
                                   [vat |-> IF flagged(lines[i]) THEN Zero64
                                            ELSE TimesRate(lines[i].lineTotal,
                                                           rate)]],
                               "vat"))

\* C30: getVATRate returns the 15% rate only for dates of the year 2030 or
\* later; for a year before 2025 it does not return 15%, the rate never
\* being lower for a later year.
C30_LateRateOnlyFrom2030 ==
    (Done("getVATRate") /\ DateOf(req).valid)
    => LET year == getFullYear(DateOf(req))
       IN  /\ (ret.value = STANDARD_2030) => (year >= 2030)
           /\ (year < 2025) => (ret.value <= STANDARD_2025)

====
